---------------------------- MODULE Spec2Model ----------------------------
(***************************************************************************)
(* A model of apache_beam/runners/worker/bundle_processor.py: the bundle   *)
(* lifecycle of BundleProcessor, the input position and dynamic split of   *)
(* DataInputOperation, the pure split calculator _compute_split, and the   *)
(* keyed state runtime: RangeSet, the ordered list, bag, set, combining    *)
(* value and read-modify-write states and their commit against the state   *)
(* service, the state objects of FnApiUserStateContext and the views of    *)
(* StateBackedSideInputMap.                                                *)
(*                                                                         *)
(* Numbers that are floats in the source (the fraction of the remainder,   *)
(* the progress of the current element) are exact rationals [n, d] here;   *)
(* round() is Python 3's round-half-to-even.  float('inf') is the          *)
(* distinguished value Inf, and every comparison with it is special-cased. *)
(***************************************************************************)
EXTENDS Integers, Sequences, FiniteSets, TLC

(***************************************************************************)
(* Bounds of the model.                                                    *)
(***************************************************************************)
MaxIndex == 3
MaxStop == 5
MaxTotal == 6
MaxPoint == 5

\* float('inf'), the initial value of DataInputOperation.stop.
Inf == 2147483647

\* Python's None, as the result of _compute_split / try_split.
None == <<>>

\* Rationals n/d with d > 0.
Rat(n, d) == [n |-> n, d |-> d]

Progresses == {Rat(0, 1), Rat(1, 10), Rat(1, 2), Rat(3, 4), Rat(1, 1)}
Fractions == {Rat(0, 1), Rat(3, 10), Rat(1, 2), Rat(1, 1)}

Max2(a, b) == IF a >= b THEN a ELSE b

Min2(a, b) == IF a <= b THEN a ELSE b

Range(q) == {q[j] : j \in 1 .. Len(q)}

\* int(math.ceil(n / d)) for d > 0: rounding up where round() goes to nearest.
round_up(n, d) == IF n % d = 0 THEN n \div d ELSE (n \div d) + 1

(***************************************************************************)
(* int(round(n / d)) for d > 0: Python 3 rounds halves to the even         *)
(* neighbour.  \div is the floor division and % the non-negative remainder.*)
(***************************************************************************)
round(n, d) ==
  LET q == n \div d
      r == n % d
  IN  IF 2 * r < d THEN q
      ELSE IF 2 * r > d THEN q + 1
      ELSE IF q % 2 = 0 THEN q ELSE q + 1

\* sorted(allowed_split_points), as a sequence.
RECURSIVE sorted(_)
sorted(S) ==
  IF S = {} THEN <<>>
  ELSE LET m == CHOOSE x \in S : \A y \in S : x <= y
       IN  <<m>> \o sorted(S \ {m})

\* bisect.bisect(a, x): the insertion point to the right of any equal entry.
RECURSIVE bisect_from(_, _, _)
bisect_from(a, x, lo) ==
  IF lo > Len(a) THEN Len(a)
  ELSE IF x < a[lo] THEN lo - 1
  ELSE bisect_from(a, x, lo + 1)

bisect(a, x) == bisect_from(a, x, 1)

\* is_valid_split_point without the test of membership.
is_valid_split_point_any(allowed_split_points, i) == TRUE

is_valid_split_point(allowed_split_points, i) ==
  allowed_split_points = {} \/ i \in allowed_split_points

\* The clamp without its upper half: total_buffer_size only raised to index + 1.
clamp_total_buffer_size_below(index, stop, total_buffer_size) ==
  IF total_buffer_size < index + 1 THEN index + 1 ELSE total_buffer_size

\* total_buffer_size clamped into [index + 1, stop].
clamp_total_buffer_size(index, stop, total_buffer_size) ==
  IF total_buffer_size < index + 1 THEN index + 1
  ELSE IF stop # Inf /\ total_buffer_size > stop THEN stop
  ELSE total_buffer_size

\* remainder = total_buffer_size - index - current_element_progress, times p.d.
remainder_num(index, p, stop, total_buffer_size) ==
  (clamp_total_buffer_size(index, stop, total_buffer_size) - index) * p.d - p.n

\* keep / (1 - current_element_progress) < 1, for current_element_progress < 1.
keep_of_element_remainder_lt_1(index, p, stop, f, total_buffer_size) ==
  remainder_num(index, p, stop, total_buffer_size) * f.n < f.d * (p.d - p.n)

\* index + max(1, int(round(current_element_progress + keep))).
raw_stop_index(index, p, stop, f, total_buffer_size) ==
  index + Max2(1, round(p.n * f.d
                          + remainder_num(index, p, stop, total_buffer_size) * f.n,
                        p.d * f.d))

\* The closest allowed split point, the one before on a tie.
closest_allowed_tie_prev(index, stop_index, allowed_split_points) ==
  LET a == sorted(allowed_split_points)
      closest == bisect(a, stop_index)
  IN  IF closest = 0 THEN a[1]
      ELSE IF closest = Len(a) THEN a[Len(a)]
      ELSE LET prev == a[closest]
               next == a[closest + 1]
           IN  IF index < prev /\ stop_index - prev <= next - stop_index
               THEN prev ELSE next

\* The closest allowed split point to a stop_index that is not allowed.
closest_allowed(index, stop_index, allowed_split_points) ==
  LET a == sorted(allowed_split_points)
      closest == bisect(a, stop_index)
  IN  IF closest = 0 THEN a[1]
      ELSE IF closest = Len(a) THEN a[Len(a)]
      ELSE LET prev == a[closest]
               next == a[closest + 1]
           IN  IF index < prev /\ stop_index - prev < next - stop_index
               THEN prev ELSE next

\* The element boundary _compute_split chooses when it does not split inside
\* the current element.
boundary_stop_index(index, p, stop, f, total_buffer_size, allowed_split_points) ==
  LET stop_index == raw_stop_index(index, p, stop, f, total_buffer_size)
  IN  IF allowed_split_points # {} /\ stop_index \notin allowed_split_points
      THEN closest_allowed(index, stop_index, allowed_split_points)
      ELSE stop_index

\* The final test with both comparisons inclusive: index <= stop_index <= stop.
boundary_result_inclusive(index, stop, stop_index) ==
  IF index <= stop_index /\ (stop = Inf \/ stop_index <= stop)
  THEN <<stop_index - 1, <<>>, <<>>, stop_index>>
  ELSE None

\* The final test without the comparison with stop: index < stop_index.
boundary_result_no_stop(index, stop, stop_index) ==
  IF index < stop_index
  THEN <<stop_index - 1, <<>>, <<>>, stop_index>>
  ELSE None

\* The final test of _compute_split: index < stop_index < stop.
boundary_result(index, stop, stop_index) ==
  IF index < stop_index /\ (stop = Inf \/ stop_index < stop)
  THEN <<stop_index - 1, <<>>, <<>>, stop_index>>
  ELSE None

\* The test without the look at index + 1.
tries_element_split_one_point(index, p, stop, f, total_buffer_size, allowed_split_points) ==
  /\ p.n < p.d
  /\ keep_of_element_remainder_lt_1(index, p, stop, f, total_buffer_size)
  /\ is_valid_split_point(allowed_split_points, index)

\* Whether _compute_split calls the element split function.
tries_element_split(index, p, stop, f, total_buffer_size, allowed_split_points) ==
  /\ p.n < p.d
  /\ keep_of_element_remainder_lt_1(index, p, stop, f, total_buffer_size)
  /\ is_valid_split_point(allowed_split_points, index)
  /\ is_valid_split_point(allowed_split_points, index + 1)

(***************************************************************************)
(* DataInputOperation._compute_split.  element_splits says whether the     *)
(* element split function (the receiver's try_split) yields a pair of      *)
(* primaries and residuals.                                                *)
(***************************************************************************)
_compute_split(index, p, stop, f, total_buffer_size, allowed_split_points, element_splits) ==
  IF /\ tries_element_split(index, p, stop, f, total_buffer_size,
                            allowed_split_points)
     /\ element_splits
  THEN <<index - 1, <<"primary">>, <<"residual">>, index + 1>>
  ELSE boundary_result(
         index, stop,
         boundary_stop_index(index, p, stop, f, total_buffer_size,
                             allowed_split_points))

(***************************************************************************)
(* The stage description (ProcessBundleDescriptor).  main holds the pairs  *)
(* <<producer, consumer>> of an output collection read as an ordinary      *)
(* input, side those read as a side input.  sdf are the splittable         *)
(* operators (their elements can be split and deferred), timers the        *)
(* operators with a timer family, timer_channel whether the descriptor     *)
(* names a timer service.  descriptor.transforms iterates in ascending id. *)
(***************************************************************************)
TransformIds == {1, 2, 3}

Callers == {"w1", "w2"}

InstructionIds == {"i1", "i2"}

\* The instruction of the n-th bundle: the runner never reuses an instruction id.
InstructionSeq == <<"i1", "i2", "i3", "i4">>

\* current_instruction_id = None.
NoInstruction == "none"

MaxElems == 2
MaxBundles == 2
MaxSplits == 2
MaxTimers == 1

Descriptor(transforms, main, side, sdf, timers, timer_channel) ==
  [transforms |-> transforms, main |-> main, side |-> side, sdf |-> sdf,
   timers |-> timers, timer_channel |-> timer_channel]

\* pcoll_consumers, per producing transform: side inputs are left out.
pcoll_consumers(d, t) == {c \in d.transforms : <<t, c>> \in d.main}

producers(d, t) == {p \in d.transforms : <<p, t>> \in d.main}

\* A DataInputOperation: a root of the stage, fed by the data channel.
is_data_input(d, t) ==
  t \in d.transforms /\ ~\E p \in d.transforms : <<p, t>> \in d.main \cup d.side

RECURSIVE topological_height(_, _)
topological_height(d, t) ==
  LET hs == {topological_height(d, c) : c \in pcoll_consumers(d, t)} \cup {0}
  IN  1 + CHOOSE h \in hs : \A g \in hs : g <= h

\* The transform ids in the iteration order of descriptor.transforms.
transform_order(S) == sorted(S)

Reverse(s) == [i \in 1 .. Len(s) |-> s[Len(s) + 1 - i]]

\* sorted(seq, key=topological_height, reverse=True): a stable sort, entries
\* of equal height keep their order.
RECURSIVE sorted_by_height_desc(_, _, _)
sorted_by_height_desc(d, seq, h) ==
  IF h = 0 THEN <<>>
  ELSE SelectSeq(seq, LAMBDA t : topological_height(d, t) = h)
         \o sorted_by_height_desc(d, seq, h - 1)

\* The operators in the iteration order of the descriptor, without the sort.
create_execution_tree_unsorted(d) == transform_order(d.transforms)

\* BundleProcessor.create_execution_tree: the keys of self.ops, in order.
create_execution_tree(d) ==
  sorted_by_height_desc(d, transform_order(d.transforms),
                        Cardinality(d.transforms))

\* The start loop without reversed(): operators started in the order of self.ops.
start_order_forward(o) == o

\* reversed(self.ops.values()): the order process_bundle starts operators in.
start_order(o) == Reverse(o)

\* self.ops.values(): the order process_bundle finishes operators in.
finish_order(o) == o

(***************************************************************************)
(* State.                                                                  *)
(***************************************************************************)
VARIABLES
  csIn, csOut, csDone,       \* one call of _compute_split
  descriptor,                \* self.process_bundle_descriptor
  ops,                       \* self.ops (its keys, in order)
  current_instruction_id,    \* BundleProcessor.current_instruction_id
  splitting_lock,            \* BundleProcessor.splitting_lock: its holder
  index, stop, started,      \* DataInputOperation fields, per transform
  timer_stream,              \* timer_info.output_stream, per transform
  pc, instr, pos,            \* process_bundle: position, argument, loop index
  cur, buf, ord,             \* process_encoded: operator, elements left, ordinal
  delivered,                 \* elements the channel has handed over, per input
  timers_in,                 \* timer records the channel has handed over
  events,                    \* the steps of process_bundle so far, in order
  emitted,                   \* the ordinals passed downstream, per input
  delayed,                   \* execution_context.delayed_applications
  result,                    \* how the last process_bundle ended
  bundles,                   \* process_bundle calls so far
  spc, sreq, spos, sresp,    \* try_split: position, instruction, loop, response
  nSplits,                   \* try_split calls so far
  sflight,                   \* the callers mid-bundle when try_split took the lock
  sarg,                      \* the progress reported to the adapter split of the last step
  obj,                       \* the fields of one runtime state object (or RangeSet)
  handler,                   \* the state handler: remote content, requests issued
  call,                      \* the last call on the state object and its result
  hist                       \* what has been asked of the state object so far

csVars == <<csIn, csOut, csDone>>

stateVars == <<obj, handler, call, hist>>

workerVars == <<pc, instr, pos, cur, buf, ord, delivered, timers_in, events,
                emitted, delayed, result, bundles>>

splitterVars == <<spc, sreq, spos, sresp, nSplits, sflight, sarg>>

engineVars ==
  <<descriptor, ops, current_instruction_id, splitting_lock, index, stop,
    started, timer_stream, workerVars, splitterVars>>

vars == <<csVars, stateVars, engineVars>>

\* One entry of events: what happened, and to which transform (0: none).
Ev(e, t) == [e |-> e, t |-> t]

EmptyResponse ==
  [primary_roots |-> <<>>, residual_roots |-> <<>>, channel_splits |-> <<>>]

csIdle ==
  [index |-> -1, progress |-> Rat(1, 1), stop |-> Inf, fraction |-> Rat(0, 1),
   total |-> 0, allowed |-> {}, element_splits |-> FALSE]

\* No adapter split was made in the last step.
NoSplitArg == Rat(0, 0)

NoneDelivered == [t \in TransformIds |-> 0]

NoneEmitted == [t \in TransformIds |-> <<>>]

\* BundleProcessor.__init__ and DataInputOperation.__init__, for descriptor d.
InitEngine(d) ==
  /\ descriptor = d
  /\ ops = create_execution_tree(d)
  /\ current_instruction_id = NoInstruction
  /\ splitting_lock = "free"
  /\ index = [t \in TransformIds |-> -1]
  /\ stop = [t \in TransformIds |-> Inf]
  /\ started = [t \in TransformIds |-> FALSE]
  /\ timer_stream = [t \in TransformIds |-> "unset"]
  /\ pc = [w \in Callers |-> "idle"]
  /\ instr = [w \in Callers |-> NoInstruction]
  /\ pos = [w \in Callers |-> 0]
  /\ cur = [w \in Callers |-> 0]
  /\ buf = [w \in Callers |-> 0]
  /\ ord = [w \in Callers |-> 0]
  /\ delivered = [w \in Callers |-> NoneDelivered]
  /\ timers_in = [w \in Callers |-> 0]
  /\ events = [w \in Callers |-> <<>>]
  /\ emitted = [w \in Callers |-> NoneEmitted]
  /\ delayed = [w \in Callers |-> <<>>]
  /\ result = [w \in Callers |-> "none"]
  /\ bundles = 0
  /\ spc = "idle"
  /\ sreq = NoInstruction
  /\ spos = 0
  /\ sresp = EmptyResponse
  /\ nSplits = 0
  /\ sflight = {}
  /\ sarg = NoSplitArg

\* No runtime state object has been made.
InitStateIdle ==
  /\ obj = None
  /\ handler = None
  /\ call = None
  /\ hist = None

InitCsIdle ==
  /\ csIn = csIdle
  /\ csOut = None
  /\ csDone = FALSE
  /\ InitStateIdle

InputOps(d) == {t \in d.transforms : is_data_input(d, t)}

\* The operators an element of input t can reach, t's consumers first.
RECURSIVE downstream(_, _, _)
downstream(d, S, n) ==
  IF n = 0 THEN S
  ELSE downstream(d, S \cup UNION {pcoll_consumers(d, t) : t \in S}, n - 1)

Downstream(d, t) ==
  downstream(d, pcoll_consumers(d, t), Cardinality(d.transforms))

Log(w, e) == events' = [events EXCEPT ![w] = Append(@, e)]

\* A record handed to an operator is logged once per run of such records.
LogDispatch(w) ==
  events' = [events EXCEPT ![w] =
               IF @[Len(@)].e = "dispatch" THEN @
               ELSE Append(@, Ev("dispatch", 0))]

\* An exit whose failure path leaves process_bundle without the finally clause.
Exit_skips_finally(w, how) ==
  /\ pc' = [pc EXCEPT ![w] = IF how = "raised" THEN "done" ELSE "finally"]
  /\ result' = [result EXCEPT ![w] = how]

\* The finally clause of process_bundle is entered next.
Exit(w, how) ==
  /\ pc' = [pc EXCEPT ![w] = "finally"]
  /\ result' = [result EXCEPT ![w] = how]

\* process_bundle that leaves the marker of a bundle in flight as it is.
ProcessBundle_keeps_marker(w, i) ==
  /\ pc[w] = "idle"
  /\ bundles' = bundles + 1
  /\ current_instruction_id' =
       IF current_instruction_id = NoInstruction THEN i
       ELSE current_instruction_id
  /\ instr' = [instr EXCEPT ![w] = i]
  /\ pc' = [pc EXCEPT ![w] = "start"]
  /\ pos' = [pos EXCEPT ![w] = 1]
  /\ events' = [events EXCEPT ![w] = <<Ev("mark", 0)>>]
  /\ UNCHANGED <<csVars, stateVars, descriptor, ops, splitting_lock, index, stop, started,
                 timer_stream, cur, buf, ord, delivered, timers_in, emitted,
                 delayed, result, splitterVars>>

(***************************************************************************)
(* process_bundle(instruction_id), up to and including the marking of the  *)
(* instruction as current.  The code tests nothing before it assigns.      *)
(***************************************************************************)
ProcessBundle(w, i) ==
  /\ pc[w] = "idle"
  /\ bundles' = bundles + 1
  /\ current_instruction_id' = i
  /\ instr' = [instr EXCEPT ![w] = i]
  /\ pc' = [pc EXCEPT ![w] = "start"]
  /\ pos' = [pos EXCEPT ![w] = 1]
  /\ events' = [events EXCEPT ![w] = <<Ev("mark", 0)>>]
  /\ UNCHANGED <<csVars, stateVars, descriptor, ops, splitting_lock, index, stop, started,
                 timer_stream, cur, buf, ord, delivered, timers_in, emitted,
                 delayed, result, splitterVars>>

\* A loop over the operators that ends one operator short.
loop_done_early(n) == n >= Len(ops)

\* The loop over the operators, at loop index n, has run out.
loop_done(n) == n > Len(ops)

\* The loop test one element short: "while input_stream.size() > 1".
input_has_more_short(size) == size > 1

\* "while input_stream.size() > 0".
input_has_more(size) == size > 0

\* A bundle of caller w is between the marking and the end of the finally.
InFlight(w) == pc[w] \notin {"idle", "done"}

\* One turn of "for op in reversed(self.ops.values()): op.start()".
StartOp(w, raises) ==
  /\ pc[w] = "start"
  /\ ~loop_done(pos[w])
  /\ LET t == start_order(ops)[pos[w]]
     IN  IF raises
         THEN /\ Exit(w, "raised")
              /\ Log(w, Ev("raise", t))
              /\ UNCHANGED <<started, pos>>
         ELSE /\ started' = IF is_data_input(descriptor, t)
                            THEN [started EXCEPT ![t] = TRUE] ELSE started
              /\ pos' = [pos EXCEPT ![w] = @ + 1]
              /\ Log(w, Ev("start", t))
              /\ UNCHANGED <<pc, result>>
  /\ UNCHANGED <<csVars, stateVars, descriptor, ops, current_instruction_id,
                 splitting_lock, index, stop, timer_stream, instr, cur, buf,
                 ord, delivered, timers_in, emitted, delayed, bundles,
                 splitterVars>>

\* The channels are set up and, with a timer channel, every timer family gets
\* its output stream.
SetUpInputs(w) ==
  /\ pc[w] = "start"
  /\ loop_done(pos[w])
  /\ pc' = [pc EXCEPT ![w] = "input"]
  /\ timer_stream' =
       IF descriptor.timer_channel
       THEN [t \in TransformIds |->
               IF t \in descriptor.timers THEN "open" ELSE timer_stream[t]]
       ELSE timer_stream
  /\ UNCHANGED <<csVars, stateVars, descriptor, ops, current_instruction_id,
                 splitting_lock, index, stop, started, instr, pos, cur, buf,
                 ord, delivered, timers_in, events, emitted, delayed, result,
                 bundles, splitterVars>>

\* The channel yields a Data element for input t holding k encoded elements,
\* and process_bundle hands it to t's process_encoded.
DeliverData(w, t, k) ==
  /\ pc[w] = "input"
  /\ is_data_input(descriptor, t)
  /\ k >= 1
  /\ pc' = [pc EXCEPT ![w] = "pe_lock"]
  /\ cur' = [cur EXCEPT ![w] = t]
  /\ buf' = [buf EXCEPT ![w] = k]
  /\ ord' = [ord EXCEPT ![w] = delivered[w][t]]
  /\ delivered' = [delivered EXCEPT ![w][t] = @ + k]
  /\ LogDispatch(w)
  /\ UNCHANGED <<csVars, stateVars, descriptor, ops, current_instruction_id,
                 splitting_lock, index, stop, started, timer_stream, instr,
                 pos, timers_in, emitted, delayed, result, bundles,
                 splitterVars>>

\* The stop test one element late: "if self.index == self.stop".
at_stop_late(i, s) == s # Inf /\ i = s

\* The test process_encoded makes under the adapter's lock.
at_stop(i, s) == s # Inf /\ i = s - 1

\* process_encoded, the part under the adapter's lock: return at the stop,
\* dropping what is left of the buffer, or move on to the next element.
ProcessEncodedLocked(w) ==
  /\ pc[w] = "pe_lock"
  /\ LET t == cur[w]
     IN  IF at_stop(index[t], stop[t])
         THEN /\ pc' = [pc EXCEPT ![w] = "input"]
              /\ buf' = [buf EXCEPT ![w] = 0]
              /\ UNCHANGED index
         ELSE /\ index' = [index EXCEPT ![t] = @ + 1]
              /\ pc' = [pc EXCEPT ![w] = "pe_decode"]
              /\ UNCHANGED buf
  /\ UNCHANGED <<csVars, stateVars, descriptor, ops, current_instruction_id,
                 splitting_lock, stop, started, timer_stream, instr, pos, cur,
                 ord, delivered, timers_in, events, emitted, delayed, result,
                 bundles, splitterVars>>

\* process_encoded, outside the lock: decode the element and pass it
\* downstream.  raises: the decoding, or an operator downstream, fails.
\* deferred: the splittable operator (0: none) that defers part of the element.
ProcessEncodedOutput(w, raises, deferred) ==
  /\ pc[w] = "pe_decode"
  /\ deferred \in {0} \cup (descriptor.sdf \cap Downstream(descriptor, cur[w]))
  /\ LET t == cur[w]
     IN  IF raises
         THEN /\ Exit(w, "raised")
              /\ Log(w, Ev("raise", t))
              /\ UNCHANGED <<buf, ord, delayed, emitted>>
         ELSE /\ emitted' = [emitted EXCEPT ![w][t] = Append(@, ord[w])]
              /\ delayed' = IF deferred = 0 THEN delayed
                            ELSE [delayed EXCEPT ![w] = Append(@, deferred)]
              /\ buf' = [buf EXCEPT ![w] = @ - 1]
              /\ ord' = [ord EXCEPT ![w] = @ + 1]
              /\ pc' = [pc EXCEPT ![w] =
                          IF input_has_more(buf[w] - 1)
                          THEN "pe_lock" ELSE "input"]
              /\ UNCHANGED <<result, events>>
  /\ UNCHANGED <<csVars, stateVars, descriptor, ops, current_instruction_id,
                 splitting_lock, index, stop, started, timer_stream, instr,
                 pos, cur, delivered, timers_in, bundles, splitterVars>>

\* The channel yields a timer record for t's timer family: process_timer.
DeliverTimer(w, t) ==
  /\ pc[w] = "input"
  /\ descriptor.timer_channel
  /\ t \in descriptor.timers
  /\ timers_in' = [timers_in EXCEPT ![w] = @ + 1]
  /\ LogDispatch(w)
  /\ UNCHANGED <<csVars, stateVars, descriptor, ops, current_instruction_id,
                 splitting_lock, index, stop, started, timer_stream, pc, instr,
                 pos, cur, buf, ord, delivered, emitted, delayed, result,
                 bundles, splitterVars>>

\* Every channel has signalled the end of all its expected inputs.
EndOfInput(w) ==
  /\ pc[w] = "input"
  /\ pc' = [pc EXCEPT ![w] = "finish"]
  /\ pos' = [pos EXCEPT ![w] = 1]
  /\ Log(w, Ev("eos", 0))
  /\ UNCHANGED <<csVars, stateVars, descriptor, ops, current_instruction_id,
                 splitting_lock, index, stop, started, timer_stream, instr,
                 cur, buf, ord, delivered, timers_in, emitted, delayed, result,
                 bundles, splitterVars>>

\* One turn of "for op in self.ops.values(): op.finish()".
FinishOp(w, raises) ==
  /\ pc[w] = "finish"
  /\ ~loop_done(pos[w])
  /\ LET t == finish_order(ops)[pos[w]]
     IN  IF raises
         THEN /\ Exit(w, "raised")
              /\ Log(w, Ev("raise", t))
              /\ UNCHANGED <<index, started, pos>>
         ELSE /\ index' = IF is_data_input(descriptor, t)
                          THEN [index EXCEPT ![t] = @ + 1] ELSE index
              /\ started' = IF is_data_input(descriptor, t)
                            THEN [started EXCEPT ![t] = FALSE] ELSE started
              /\ pos' = [pos EXCEPT ![w] = @ + 1]
              /\ Log(w, Ev("finish", t))
              /\ UNCHANGED <<pc, result>>
  /\ UNCHANGED <<csVars, stateVars, descriptor, ops, current_instruction_id,
                 splitting_lock, stop, timer_stream, instr, cur, buf, ord,
                 delivered, timers_in, emitted, delayed, bundles,
                 splitterVars>>

\* The timer families in the order of self.timers_info.
timer_order(d) == sorted(d.timers)

\* "Close every timer output stream", then the return statement.  A timer
\* family whose stream was never set fails the assertion.
CloseTimers(w) ==
  /\ pc[w] = "finish"
  /\ loop_done(pos[w])
  /\ IF \E t \in descriptor.timers : timer_stream[t] = "unset"
     THEN /\ Exit(w, "raised")
          /\ Log(w, Ev("raise", 0))
          /\ UNCHANGED timer_stream
     ELSE /\ Exit(w, "ok")
          /\ timer_stream' =
               [t \in TransformIds |->
                  IF t \in descriptor.timers THEN "closed" ELSE timer_stream[t]]
          /\ events' = [events EXCEPT ![w] =
               @ \o [j \in 1 .. Len(timer_order(descriptor)) |->
                       Ev("close", timer_order(descriptor)[j])]
                 \o <<Ev("return", 0)>>]
  /\ UNCHANGED <<csVars, stateVars, descriptor, ops, current_instruction_id,
                 splitting_lock, index, stop, started, instr, pos, cur, buf,
                 ord, delivered, timers_in, emitted, delayed, bundles,
                 splitterVars>>

\* The finally clause: with the splitting lock held, clear the marker.
Finally(w) ==
  /\ pc[w] = "finally"
  /\ splitting_lock = "free"
  /\ current_instruction_id' = NoInstruction
  /\ pc' = [pc EXCEPT ![w] = "done"]
  /\ UNCHANGED <<csVars, stateVars, descriptor, ops, splitting_lock, index, stop, started,
                 timer_stream, instr, pos, cur, buf, ord, delivered, timers_in,
                 events, emitted, delayed, result, bundles, splitterVars>>

(***************************************************************************)
(* BundleProcessor.reset, which the owner of the processor calls before it *)
(* uses the processor for another bundle: every DataInputOperation.reset.  *)
(* What the model recorded of the bundle is dropped with it.               *)
(***************************************************************************)
Reset_keeps_stop(w) ==
  /\ pc[w] = "done"
  /\ pc' = [pc EXCEPT ![w] = "idle"]
  /\ index' = [t \in TransformIds |->
                 IF is_data_input(descriptor, t) THEN -1 ELSE index[t]]
  /\ instr' = [instr EXCEPT ![w] = NoInstruction]
  /\ pos' = [pos EXCEPT ![w] = 0]
  /\ cur' = [cur EXCEPT ![w] = 0]
  /\ buf' = [buf EXCEPT ![w] = 0]
  /\ ord' = [ord EXCEPT ![w] = 0]
  /\ delivered' = [delivered EXCEPT ![w] = NoneDelivered]
  /\ timers_in' = [timers_in EXCEPT ![w] = 0]
  /\ events' = [events EXCEPT ![w] = <<>>]
  /\ emitted' = [emitted EXCEPT ![w] = NoneEmitted]
  /\ delayed' = [delayed EXCEPT ![w] = <<>>]
  /\ result' = [result EXCEPT ![w] = "none"]
  /\ UNCHANGED <<csVars, stateVars, descriptor, ops, current_instruction_id,
                 splitting_lock, stop, started, timer_stream, bundles,
                 splitterVars>>

Reset(w) ==
  /\ pc[w] = "done"
  /\ pc' = [pc EXCEPT ![w] = "idle"]
  /\ index' = [t \in TransformIds |->
                 IF is_data_input(descriptor, t) THEN -1 ELSE index[t]]
  /\ stop' = [t \in TransformIds |->
                IF is_data_input(descriptor, t) THEN Inf ELSE stop[t]]
  /\ instr' = [instr EXCEPT ![w] = NoInstruction]
  /\ pos' = [pos EXCEPT ![w] = 0]
  /\ cur' = [cur EXCEPT ![w] = 0]
  /\ buf' = [buf EXCEPT ![w] = 0]
  /\ ord' = [ord EXCEPT ![w] = 0]
  /\ delivered' = [delivered EXCEPT ![w] = NoneDelivered]
  /\ timers_in' = [timers_in EXCEPT ![w] = 0]
  /\ events' = [events EXCEPT ![w] = <<>>]
  /\ emitted' = [emitted EXCEPT ![w] = NoneEmitted]
  /\ delayed' = [delayed EXCEPT ![w] = <<>>]
  /\ result' = [result EXCEPT ![w] = "none"]
  /\ UNCHANGED <<csVars, stateVars, descriptor, ops, current_instruction_id,
                 splitting_lock, started, timer_stream, bundles, splitterVars>>

(***************************************************************************)
(* DataInputOperation.try_split, under the adapter's lock.  progress is    *)
(* what the receiver reports for the element in progress (1/2 when it      *)
(* reports nothing), element_splits whether the receiver splits it.        *)
(***************************************************************************)
current_element_progress(i, progress) ==
  IF i = -1 THEN Rat(1, 1) ELSE progress

input_try_split(t, f, total, allowed, progress, element_splits) ==
  IF ~started[t] THEN None
  ELSE _compute_split(index[t], current_element_progress(index[t], progress),
                      stop[t], f, total, allowed, element_splits)

\* "if split: self.stop = split[-1]".
stop_after_split(s, split) == IF split # None THEN split[4] ELSE s

DesiredSplit(f, total, allowed) ==
  [fraction |-> f, total |-> total, allowed |-> allowed]

\* bundle_split_request.desired_splits.get(op.transform_id) is None.
NoDesiredSplit == DesiredSplit(Rat(0, 1), -1, {})

\* try_split without the comparison of instruction ids.
is_stale_never(request_instruction_id, current) == FALSE

\* The test BundleProcessor.try_split makes under the splitting lock.
is_stale(request_instruction_id, current) ==
  request_instruction_id # current

\* What BundleProcessor.try_split adds to the response for a split of t.
add_split(resp, t, split) ==
  [primary_roots |-> resp.primary_roots \o split[2],
   residual_roots |-> resp.residual_roots \o split[3],
   channel_splits |-> Append(resp.channel_splits,
      [transform_id |-> t, last_primary_element |-> split[1],
       first_residual_element |-> split[4]])]

\* BundleProcessor.try_split: take the splitting lock and compare the
\* request's instruction with the current one.
TrySplitBegin(i) ==
  /\ spc = "idle"
  /\ splitting_lock = "free"
  /\ nSplits' = nSplits + 1
  /\ sreq' = i
  /\ sresp' = EmptyResponse
  /\ sflight' = {w \in Callers : InFlight(w)}
  /\ IF is_stale(i, current_instruction_id)
     THEN UNCHANGED <<spc, spos, splitting_lock>>
     ELSE /\ spc' = "ops"
          /\ spos' = 1
          /\ splitting_lock' = "splitter"
  /\ UNCHANGED <<csVars, stateVars, descriptor, ops, current_instruction_id, index, stop,
                 started, timer_stream, workerVars, sarg>>

\* One turn of "for op in self.ops.values()": ds is the request's desired split
\* for this operator, or NoDesiredSplit.
TrySplitOp(ds, progress, element_splits) ==
  /\ spc = "ops"
  /\ ~loop_done(spos)
  /\ spos' = spos + 1
  /\ LET t == ops[spos]
     IN  /\ element_splits =>
              pcoll_consumers(descriptor, t) \cap descriptor.sdf # {}
         /\ IF is_data_input(descriptor, t) /\ ds # NoDesiredSplit
            THEN LET split == input_try_split(t, ds.fraction, ds.total,
                                              ds.allowed, progress,
                                              element_splits)
                 IN  /\ stop' = [stop EXCEPT ![t] = stop_after_split(@, split)]
                     /\ sresp' = IF split # None
                                 THEN add_split(sresp, t, split) ELSE sresp
                     /\ sarg' = current_element_progress(index[t], progress)
            ELSE /\ sarg' = NoSplitArg
                 /\ UNCHANGED <<stop, sresp>>
  /\ UNCHANGED <<csVars, stateVars, descriptor, ops, current_instruction_id,
                 splitting_lock, index, started, timer_stream, workerVars,
                 spc, sreq, nSplits, sflight>>

\* The response is returned to the caller and the splitting lock released.
TrySplitEnd ==
  /\ spc = "ops"
  /\ loop_done(spos)
  /\ spc' = "idle"
  /\ spos' = 0
  /\ sresp' = EmptyResponse
  /\ sarg' = NoSplitArg
  /\ splitting_lock' = "free"
  /\ UNCHANGED <<csVars, stateVars, descriptor, ops, current_instruction_id, index, stop,
                 started, timer_stream, workerVars, sreq, nSplits, sflight>>

(***************************************************************************)
(* The engine with one worker thread and one control thread.               *)
(***************************************************************************)
StageDescriptors ==
  { Descriptor({1, 2}, {<<1, 2>>}, {}, {}, {}, FALSE),
    Descriptor({1, 2}, {<<2, 1>>}, {}, {1}, {1}, TRUE),
    Descriptor({1, 2, 3}, {<<1, 2>>, <<3, 2>>}, {}, {}, {}, FALSE) }

DesiredSplits ==
  { DesiredSplit(f, total, allowed) :
      f \in {Rat(0, 1), Rat(1, 2)}, total \in {MaxElems},
      allowed \in {{}, {1, MaxElems}} }

RECURSIVE SumOver(_, _)
SumOver(f, S) ==
  IF S = {} THEN 0
  ELSE LET x == CHOOSE y \in S : TRUE IN f[x] + SumOver(f, S \ {x})

\* The elements the channel has handed over in this bundle, all inputs together.
TotalDelivered(w) == SumOver(delivered[w], TransformIds)

Init ==
  /\ InitCsIdle
  /\ \E d \in StageDescriptors : InitEngine(d)

Worker(w) ==
  \/ bundles < MaxBundles /\ ProcessBundle(w, InstructionSeq[bundles + 1])
  \/ \E raises \in BOOLEAN : StartOp(w, raises)
  \/ SetUpInputs(w)
  \/ \E t \in TransformIds, k \in 1 .. MaxElems :
       k <= MaxElems - TotalDelivered(w) /\ DeliverData(w, t, k)
  \/ ProcessEncodedLocked(w)
  \/ \E raises \in BOOLEAN, deferred \in {0} \cup TransformIds :
       ProcessEncodedOutput(w, raises, deferred)
  \/ \E t \in TransformIds : timers_in[w] < MaxTimers /\ DeliverTimer(w, t)
  \/ EndOfInput(w)
  \/ \E raises \in BOOLEAN : FinishOp(w, raises)
  \/ CloseTimers(w)
  \/ Finally(w)
  \/ Reset(w)

Splitter ==
  \/ \E i \in InstructionIds : nSplits < MaxSplits /\ TrySplitBegin(i)
  \/ \E ds \in DesiredSplits \cup {NoDesiredSplit},
        progress \in {Rat(0, 1), Rat(1, 2), Rat(1, 1)},
        element_splits \in BOOLEAN :
       /\ spc = "ops" /\ ~loop_done(spos)
       /\ ~is_data_input(descriptor, ops[spos]) => ds = NoDesiredSplit
       /\ ds = NoDesiredSplit => progress = Rat(1, 2) /\ ~element_splits
       /\ TrySplitOp(ds, progress, element_splits)
  \/ TrySplitEnd

Next == Worker("w1") \/ Splitter

Spec == Init /\ [][Next]_vars

(***************************************************************************)
(* The split calculator on its own, over bounded arguments.                *)
(***************************************************************************)
SplitPointSets == {S \in SUBSET (0 .. MaxPoint) : Cardinality(S) <= 2}

ComputeSplitInputs ==
  [index : -1 .. MaxIndex,
   progress : Progresses,
   stop : (0 .. MaxStop) \cup {Inf},
   fraction : Fractions,
   total : 0 .. MaxTotal,
   allowed : SplitPointSets,
   element_splits : BOOLEAN]

\* The calls of the worked example: half of ten elements, none read yet, with
\* every boundary allowed and with the boundaries 2 and 7 allowed.
SplitExamples ==
  [index : {-1}, progress : {Rat(1, 1)}, stop : {Inf}, fraction : {Rat(1, 2)},
   total : {10}, allowed : {{}, {2, 7}}, element_splits : {FALSE}]

InitSplit ==
  /\ csIn \in ComputeSplitInputs \cup SplitExamples
  /\ csOut = None
  /\ csDone = FALSE
  /\ InitStateIdle
  /\ InitEngine(Descriptor({1, 2}, {<<1, 2>>}, {}, {}, {}, FALSE))

ApplyComputeSplit ==
  /\ ~csDone
  /\ csOut' = _compute_split(csIn.index, csIn.progress, csIn.stop,
                             csIn.fraction, csIn.total, csIn.allowed,
                             csIn.element_splits)
  /\ csDone' = TRUE
  /\ UNCHANGED <<csIn, stateVars, engineVars>>

NextSplit == ApplyComputeSplit

SpecSplit == InitSplit /\ [][NextSplit]_vars

(***************************************************************************)
(* One bundle of at most one element over every acyclic stage graph on the *)
(* transform ids, each edge an ordinary or a side input; no control thread.*)
(***************************************************************************)
Pairs == {<<a, b>> \in TransformIds \X TransformIds : a # b}

RECURSIVE reach(_, _, _)
reach(R, S, n) ==
  IF n = 0 THEN S
  ELSE reach(R, S \cup {e[2] : e \in {x \in R : x[1] \in S}}, n - 1)

Acyclic(R) ==
  \A t \in TransformIds :
    t \notin reach(R, {e[2] : e \in {x \in R : x[1] = t}},
                   Cardinality(TransformIds))

AcyclicDescriptors ==
  { Descriptor(TransformIds, e[1], e[2], {}, {}, FALSE) :
      e \in {x \in (SUBSET Pairs) \X (SUBSET Pairs) :
               x[1] \cap x[2] = {} /\ Acyclic(x[1] \cup x[2])} }

InitGraphs ==
  /\ InitCsIdle
  /\ \E d \in AcyclicDescriptors : InitEngine(d)

NextGraphs ==
  \/ bundles = 0 /\ ProcessBundle("w1", InstructionSeq[1])
  \/ \E raises \in BOOLEAN : StartOp("w1", raises)
  \/ SetUpInputs("w1")
  \/ \E t \in TransformIds : TotalDelivered("w1") = 0 /\ DeliverData("w1", t, 1)
  \/ ProcessEncodedLocked("w1")
  \/ \E raises \in BOOLEAN : ProcessEncodedOutput("w1", raises, 0)
  \/ EndOfInput("w1")
  \/ \E raises \in BOOLEAN : FinishOp("w1", raises)
  \/ CloseTimers("w1")
  \/ Finally("w1")

SpecGraphs == InitGraphs /\ [][NextGraphs]_vars

(***************************************************************************)
(* Two threads that call process_bundle on the same processor, one bundle  *)
(* of at most one element each; no control thread.                         *)
(***************************************************************************)
CallerInstruction == [w \in Callers |-> IF w = "w1" THEN "i1" ELSE "i2"]

InitCallers ==
  /\ InitCsIdle
  /\ InitEngine(Descriptor({1, 2}, {<<1, 2>>}, {}, {}, {}, FALSE))

NextCallers ==
  \E w \in Callers :
    \/ result[w] = "none" /\ ProcessBundle(w, CallerInstruction[w])
    \/ \E raises \in BOOLEAN : StartOp(w, raises)
    \/ SetUpInputs(w)
    \/ \E t \in TransformIds : TotalDelivered(w) = 0 /\ DeliverData(w, t, 1)
    \/ ProcessEncodedLocked(w)
    \/ ProcessEncodedOutput(w, FALSE, 0)
    \/ EndOfInput(w)
    \/ \E raises \in BOOLEAN : FinishOp(w, raises)
    \/ CloseTimers(w)
    \/ Finally(w)

SpecCallers == InitCallers /\ [][NextCallers]_vars

(***************************************************************************)
(* A bundle of ten elements, buffered in one Data element, from a source   *)
(* to a sink, and one split request for three tenths of the remainder with *)
(* ten estimated input elements.                                           *)
(***************************************************************************)
TenthsSplit == DesiredSplit(Rat(3, 10), 10, {})

InitTen ==
  /\ InitCsIdle
  /\ InitEngine(Descriptor({1, 2}, {<<1, 2>>}, {}, {}, {}, FALSE))

NextTen ==
  \/ bundles = 0 /\ ProcessBundle("w1", InstructionSeq[1])
  \/ StartOp("w1", FALSE)
  \/ SetUpInputs("w1")
  \/ TotalDelivered("w1") = 0 /\ DeliverData("w1", 1, 10)
  \/ ProcessEncodedLocked("w1")
  \/ ProcessEncodedOutput("w1", FALSE, 0)
  \/ EndOfInput("w1")
  \/ FinishOp("w1", FALSE)
  \/ CloseTimers("w1")
  \/ Finally("w1")
  \/ nSplits = 0 /\ TrySplitBegin(InstructionSeq[1])
  \/ \E progress \in Progresses :
       /\ spc = "ops" /\ ~loop_done(spos)
       /\ IF is_data_input(descriptor, ops[spos])
          THEN TrySplitOp(TenthsSplit, progress, FALSE)
          ELSE progress = Rat(1, 2) /\ TrySplitOp(NoDesiredSplit, progress, FALSE)
  \/ TrySplitEnd

SpecTen == InitTen /\ [][NextTen]_vars

(***************************************************************************)
(* RangeSet: ranges [start, end) kept as two SortedLists, one of the start *)
(* points and one of the end points.  Indices are Python's (from 0); the   *)
(* entry of index i is a[i + 1] here.                                      *)
(***************************************************************************)
MaxRangePoint == 5
MaxRangeAdds == 3

\* SortedList.bisect_left(x): the index of the first entry >= x.
bisect_left(a, x) ==
  LET S == {i \in 1 .. Len(a) : a[i] >= x}
  IN  IF S = {} THEN Len(a) ELSE (CHOOSE i \in S : \A j \in S : i <= j) - 1

\* SortedList.add(x); SortedList.bisect_right is bisect.
SortedList_add(a, x) ==
  LET i == bisect(a, x)
  IN  SubSeq(a, 1, i) \o <<x>> \o SubSeq(a, i + 1, Len(a))

\* del a[lo:hi] for 0 <= lo and hi <= len(a): nothing when lo >= hi.
del_slice(a, lo, hi) ==
  IF lo >= hi THEN a ELSE SubSeq(a, 1, lo) \o SubSeq(a, hi + 1, Len(a))

\* RangeSet().
RangeSet_init == [_sorted_starts |-> <<>>, _sorted_ends |-> <<>>]

\* RangeSet.add from the test of the two indices on.
RangeSet_add_at(rs, start, end, min_idx, max_idx) ==
  IF min_idx >= Len(rs._sorted_starts) \/ max_idx <= 0
  THEN [_sorted_starts |-> SortedList_add(rs._sorted_starts, start),
        _sorted_ends |-> SortedList_add(rs._sorted_ends, end)]
  ELSE LET new_start == Min2(start, rs._sorted_starts[min_idx + 1])
           new_end == Max2(end, rs._sorted_ends[max_idx])
       IN  [_sorted_starts |->
              SortedList_add(del_slice(rs._sorted_starts, min_idx, max_idx),
                             new_start),
            _sorted_ends |->
              SortedList_add(del_slice(rs._sorted_ends, min_idx, max_idx),
                             new_end)]

\* RangeSet.add that takes a range ending at start for unaffected.
RangeSet_add_keeps_touching(rs, start, end) ==
  IF start >= end THEN rs
  ELSE RangeSet_add_at(rs, start, end,
                       bisect(rs._sorted_ends, start),
                       bisect(rs._sorted_starts, end))

\* RangeSet.add(start, end).
RangeSet_add(rs, start, end) ==
  IF start >= end THEN rs
  ELSE RangeSet_add_at(rs, start, end,
                       bisect_left(rs._sorted_ends, start),
                       bisect(rs._sorted_starts, end))

\* RangeSet.__contains__ that takes the end point of a range for covered.
RangeSet_contains_end(rs, key) ==
  LET idx == bisect_left(rs._sorted_starts, key)
  IN  \/ idx < Len(rs._sorted_starts) /\ rs._sorted_starts[idx + 1] = key
      \/ idx > 0 /\ rs._sorted_ends[idx] >= key

\* RangeSet.__contains__(key).
RangeSet_contains(rs, key) ==
  LET idx == bisect_left(rs._sorted_starts, key)
  IN  \/ idx < Len(rs._sorted_starts) /\ rs._sorted_starts[idx + 1] = key
      \/ idx > 0 /\ rs._sorted_ends[idx] > key

\* A call that has returned ret, or raised the exception named (none: "").
Called(op, args, ret, raised) ==
  [op |-> op, args |-> args, ret |-> ret, raised |-> raised]

\* RangeSet.__len__(): the assertion, then the length.
RangeSet_len(rs) ==
  IF Len(rs._sorted_starts) = Len(rs._sorted_ends)
  THEN Called("__len__", <<>>, Len(rs._sorted_starts), "")
  ELSE Called("__len__", <<>>, None, "AssertionError")

\* list(iter(rangeset)): zip of the two lists.
RangeSet_iter(rs) ==
  [i \in 1 .. Min2(Len(rs._sorted_starts), Len(rs._sorted_ends)) |->
     <<rs._sorted_starts[i], rs._sorted_ends[i]>>]

(***************************************************************************)
(* One RangeSet under add, membership tests and len.  hist counts the adds *)
(* and keeps the points of every range added so far.                       *)
(***************************************************************************)
InitRangeSet ==
  /\ InitEngine(Descriptor({1, 2}, {<<1, 2>>}, {}, {}, {}, FALSE))
  /\ csIn = csIdle
  /\ csOut = None
  /\ csDone = FALSE
  /\ obj = RangeSet_init
  /\ handler = None
  /\ call = Called("", <<>>, None, "")
  /\ hist = [n |-> 0, covered |-> {}]

RangeSetAdd(start, end) ==
  /\ hist.n < MaxRangeAdds
  /\ obj' = RangeSet_add(obj, start, end)
  /\ call' = Called("add", <<start, end>>, None, "")
  /\ hist' = [n |-> hist.n + 1,
              covered |-> hist.covered \cup
                            {p \in 0 .. MaxRangePoint : start <= p /\ p < end}]
  /\ UNCHANGED <<csVars, handler, engineVars>>

RangeSetContains(key) ==
  /\ call' = Called("__contains__", <<key>>, RangeSet_contains(obj, key), "")
  /\ UNCHANGED <<csVars, obj, handler, hist, engineVars>>

RangeSetLen ==
  /\ call' = RangeSet_len(obj)
  /\ UNCHANGED <<csVars, obj, handler, hist, engineVars>>

NextRangeSet ==
  \/ \E start \in 0 .. MaxRangePoint, end \in 0 .. MaxRangePoint : RangeSetAdd(start, end)
  \/ \E key \in 0 .. MaxRangePoint : RangeSetContains(key)
  \/ RangeSetLen

SpecRangeSet == InitRangeSet /\ [][NextRangeSet]_vars

(***************************************************************************)
(* SynchronousOrderedListRuntimeState.  Sort keys are the microseconds of  *)
(* the timestamps.  The source's bounds of the key range are -(1 << 63)    *)
(* and (1 << 63) - 1; the model keeps their form with KeyBits in the place *)
(* of 64.  A value is an integer; the values in Unorderable stand for      *)
(* objects Python cannot order against a different value (None, a dict):   *)
(* they compare with == and raise TypeError under <.  A call that may      *)
(* raise gives the object after it and the exception raised (none: "");    *)
(* an iterable gives the items it yields and the exception that ends it.   *)
(***************************************************************************)
KeyBits == 3
MaxListOps == 3

RANGE_MIN == -(2 ^ (KeyBits - 1))
RANGE_MAX == (2 ^ (KeyBits - 1)) - 1

Values == {0, 1, 2}
Unorderable == {0}

\* SynchronousOrderedListRuntimeState.__init__.
OrderedList_init ==
  [_cleared |-> FALSE, _pending_adds |-> <<>>,
   _pending_removes |-> RangeSet_init]

\* add that refuses a key only above RANGE_MAX.
OrderedList_add_accepts_max(o, key, value) ==
  IF key > RANGE_MAX \/ key < RANGE_MIN THEN [obj |-> o, raised |-> "ValueError"]
  ELSE [obj |-> [o EXCEPT !._pending_adds =
                   IF key \in DOMAIN @ THEN [@ EXCEPT ![key] = Append(@, value)]
                   ELSE @ @@ (key :> <<value>>)],
        raised |-> ""]

\* add((Timestamp(micros=key), value)).
OrderedList_add(o, key, value) ==
  IF key >= RANGE_MAX \/ key < RANGE_MIN THEN [obj |-> o, raised |-> "ValueError"]
  ELSE [obj |-> [o EXCEPT !._pending_adds =
                   IF key \in DOMAIN @ THEN [@ EXCEPT ![key] = Append(@, value)]
                   ELSE @ @@ (key :> <<value>>)],
        raised |-> ""]

\* local_items of read_range: for each key in order, its values in order.
RECURSIVE local_items(_, _)
local_items(d, keys) ==
  IF keys = <<>> THEN <<>>
  ELSE [i \in 1 .. Len(d[keys[1]]) |-> <<keys[1], d[keys[1]][i]>>]
         \o local_items(d, Tail(keys))

\* The entries the state service holds under the range [start, end).
StateBackedIterable(remote, start, end) ==
  SelectSeq(remote, LAMBDA kv : start <= kv[1] /\ kv[1] < end)

(***************************************************************************)
(* heapq.merge(a, b) without a key function: while both have an item the   *)
(* two heads are compared as tuples and the smaller is yielded, a's on a   *)
(* tie; once one is exhausted the other is yielded as it is.  Comparing    *)
(* two (key, value) tuples compares the keys and, when they are equal, the *)
(* values: it raises TypeError when those differ and have no order.        *)
(***************************************************************************)
RECURSIVE heapq_merge(_, _)
heapq_merge(a, b) ==
  LET x == a[1]
      y == b[1]
      lt_raises == x[1] = y[1] /\ x[2] # y[2]
                   /\ (x[2] \in Unorderable \/ y[2] \in Unorderable)
      y_lt_x == y[1] < x[1] \/ (y[1] = x[1] /\ y[2] < x[2])
  IN  IF a = <<>> THEN [items |-> b, raised |-> ""]
      ELSE IF b = <<>> THEN [items |-> a, raised |-> ""]
      ELSE IF lt_raises THEN [items |-> <<>>, raised |-> "TypeError"]
      ELSE LET rest == IF y_lt_x THEN heapq_merge(a, Tail(b))
                       ELSE heapq_merge(Tail(a), b)
           IN  [items |-> <<IF y_lt_x THEN y ELSE x>> \o rest.items,
                raised |-> rest.raised]

\* list(read_range(min, limit)) with remote the entries of the state service.
OrderedList_read_range(o, remote, min_key, limit_key) ==
  LET keys_to_add ==
        sorted({k \in DOMAIN o._pending_adds : min_key <= k /\ k < limit_key})
      local == local_items(o._pending_adds, keys_to_add)
      persistent_items ==
        SelectSeq(StateBackedIterable(remote, min_key, limit_key),
                  LAMBDA kv : ~RangeSet_contains(o._pending_removes, kv[1]))
  IN  IF ~o._cleared THEN heapq_merge(persistent_items, local)
      ELSE [items |-> local, raised |-> ""]

\* clear().
OrderedList_clear(o) ==
  [_cleared |-> TRUE, _pending_adds |-> <<>>,
   _pending_removes |-> RangeSet_add(RangeSet_init, RANGE_MIN, RANGE_MAX)]

\* clear_range(min, limit).
OrderedList_clear_range(o, min_key, limit_key) ==
  LET keys_to_remove ==
        {k \in DOMAIN o._pending_adds : min_key <= k /\ k < limit_key}
      kept == [k \in DOMAIN o._pending_adds \ keys_to_remove |->
                 o._pending_adds[k]]
  IN  [o EXCEPT !._pending_adds = kept,
                !._pending_removes =
                  IF ~o._cleared THEN RangeSet_add(@, min_key, limit_key)
                  ELSE @]

(***************************************************************************)
(* One ordered list state in one bundle, before commit: add, read,         *)
(* read_range, clear and clear_range in any order over what the state      *)
(* service holds (remote, in key order).  hist counts the calls that may   *)
(* change the object and keeps, in the order of the calls, the entries     *)
(* added and not cleared since, and the keys cleared so far.               *)
(***************************************************************************)
\* The ranges read_range and clear_range are called with.
KeyRanges == {<<0, 1>>, <<0, RANGE_MAX>>, <<RANGE_MIN, 1>>, <<1, 0>>}

InitOrderedList ==
  /\ InitEngine(Descriptor({1, 2}, {<<1, 2>>}, {}, {}, {}, FALSE))
  /\ csIn = csIdle
  /\ csOut = None
  /\ csDone = FALSE
  /\ obj = OrderedList_init
  /\ \E remote \in { <<>>,
                      << <<0, 1>> >>,
                      << <<RANGE_MIN, 2>>, <<0, 2>>, <<0, 1>>, <<1, 0>> >> } :
       handler = [remote |-> remote, it |-> None]
  /\ call = Called("", <<>>, None, "")
  /\ hist = [n |-> 0, added |-> <<>>, cleared |-> {}]

OrderedListAdd(key, value) ==
  /\ hist.n < MaxListOps
  /\ LET r == OrderedList_add(obj, key, value)
     IN  /\ obj' = r.obj
         /\ call' = Called("add", <<key, value>>, None, r.raised)
         /\ hist' = [hist EXCEPT !.n = @ + 1,
                                 !.added = IF r.raised = ""
                                           THEN Append(@, <<key, value>>)
                                           ELSE @]
  /\ UNCHANGED <<csVars, handler, engineVars>>

OrderedListReadRange(min_key, limit_key) ==
  /\ LET r == OrderedList_read_range(obj, handler.remote, min_key, limit_key)
     IN  call' = Called("read_range", <<min_key, limit_key>>, r.items, r.raised)
  /\ UNCHANGED <<csVars, obj, handler, hist, engineVars>>

\* read(): read_range over TIMESTAMP_RANGE_MIN, TIMESTAMP_RANGE_MAX.
OrderedListRead ==
  /\ LET r == OrderedList_read_range(obj, handler.remote, RANGE_MIN, RANGE_MAX)
     IN  call' = Called("read", <<RANGE_MIN, RANGE_MAX>>, r.items, r.raised)
  /\ UNCHANGED <<csVars, obj, handler, hist, engineVars>>

OrderedListClear ==
  /\ hist.n < MaxListOps
  /\ obj' = OrderedList_clear(obj)
  /\ call' = Called("clear", <<>>, None, "")
  /\ hist' = [n |-> hist.n + 1, added |-> <<>>,
              cleared |-> hist.cleared \cup (RANGE_MIN .. RANGE_MAX - 1)]
  /\ UNCHANGED <<csVars, handler, engineVars>>

OrderedListClearRange(min_key, limit_key) ==
  /\ hist.n < MaxListOps
  /\ obj' = OrderedList_clear_range(obj, min_key, limit_key)
  /\ call' = Called("clear_range", <<min_key, limit_key>>, None, "")
  /\ hist' = [n |-> hist.n + 1,
              added |-> SelectSeq(hist.added,
                          LAMBDA kv : ~(min_key <= kv[1] /\ kv[1] < limit_key)),
              cleared |-> hist.cleared \cup (min_key .. limit_key - 1)]
  /\ UNCHANGED <<csVars, handler, engineVars>>

\* An iterable that filters the entries of the state service against
\* _pending_removes as it is when the iterable is consumed.
OrderedListIterable_live_removes(min_key, limit_key) ==
  IF handler.it = None
  THEN /\ hist.n >= MaxListOps - 1
       /\ handler' = [handler EXCEPT !.it =
            [o |-> obj, range |-> <<min_key, limit_key>>, hist |-> hist]]
       /\ call' = Called("iter", <<min_key, limit_key>>, None, "")
       /\ UNCHANGED <<csVars, obj, hist, engineVars>>
  ELSE /\ handler.it.range = <<min_key, limit_key>>
       /\ LET r == OrderedList_read_range(
                     [handler.it.o EXCEPT
                        !._pending_removes = obj._pending_removes],
                     handler.remote, min_key, limit_key)
          IN  call' = Called("list", <<min_key, limit_key>>, r.items, r.raised)
       /\ handler' = [handler EXCEPT !.it = None]
       /\ UNCHANGED <<csVars, obj, hist, engineVars>>

\* read_range(min, limit) whose result is consumed later, other calls on
\* the object coming between: the first turn is the call, which returns the
\* iterable, the second is list() of it.  The iterable holds what read_range
\* took from the object when called: the keys of _pending_adds in the range
\* and for each its list and the length of it (a later add appends to the
\* list past that length, clear and clear_range drop the list from the map
\* and leave it as it is), whether _cleared was set, and the deep copy of
\* _pending_removes; the entries of the state service are read when it is
\* consumed.  handler.it keeps the object as it was at the call, and hist as
\* it was.  The iterable is taken when at most one more call that changes
\* the object can follow.
OrderedListIterable(min_key, limit_key) ==
  IF handler.it = None
  THEN /\ hist.n >= MaxListOps - 1
       /\ handler' = [handler EXCEPT !.it =
            [o |-> obj, range |-> <<min_key, limit_key>>, hist |-> hist]]
       /\ call' = Called("iter", <<min_key, limit_key>>, None, "")
       /\ UNCHANGED <<csVars, obj, hist, engineVars>>
  ELSE /\ handler.it.range = <<min_key, limit_key>>
       /\ LET r == OrderedList_read_range(handler.it.o, handler.remote,
                                          min_key, limit_key)
          IN  call' = Called("list", <<min_key, limit_key>>, r.items, r.raised)
       /\ handler' = [handler EXCEPT !.it = None]
       /\ UNCHANGED <<csVars, obj, hist, engineVars>>

NextOrderedList ==
  \/ \E key \in {RANGE_MIN - 1, RANGE_MIN, 0, RANGE_MAX - 1, RANGE_MAX} :
       \E value \in Values : OrderedListAdd(key, value)
  \/ \E r \in KeyRanges : OrderedListReadRange(r[1], r[2])
  \/ OrderedListIterable(0, RANGE_MAX)
  \/ OrderedListRead
  \/ OrderedListClear
  \/ \E r \in KeyRanges : OrderedListClearRange(r[1], r[2])

SpecOrderedList == InitOrderedList /\ [][NextOrderedList]_vars

(***************************************************************************)
(* The state service (the state handler), as the keyed state sees it:      *)
(* clear and extend return a pending operation at once; the service takes  *)
(* the requests of a key in the order they were issued, so that a read     *)
(* sees every request issued before it, and completes the pending          *)
(* operations (makes them durable) one at a time in an order of its own;   *)
(* get() on a pending operation blocks until it is complete.  remote is    *)
(* what a read of the state key gives.                                     *)
(***************************************************************************)
Request(op, arg) == [op |-> op, arg |-> arg, done |-> FALSE]

\* What a read gives once the service has taken the requests rs, in order.
RECURSIVE Completed(_, _)
Completed(remote, rs) ==
  IF rs = <<>> THEN remote
  ELSE LET r == Head(rs)
           all == remote \o r.arg
       IN  Completed(
             IF r.op = "clear" THEN <<>>
             ELSE IF r.op = "clear_range"
             THEN SelectSeq(remote,
                            LAMBDA kv : ~(r.arg[1] <= kv[1] /\ kv[1] < r.arg[2]))
             ELSE IF r.op = "extend_ordered"
             THEN local_items([k \in {kv[1] : kv \in Range(all)} |->
                                 LET at == SelectSeq(all, LAMBDA kv : kv[1] = k)
                                 IN  [i \in 1 .. Len(at) |-> at[i][2]]],
                              sorted({kv[1] : kv \in Range(all)}))
             ELSE all,
             Tail(rs))

(***************************************************************************)
(* SynchronousBagRuntimeState and SynchronousSetRuntimeState.  A call that *)
(* talks to the service gives the object after it and the requests it has  *)
(* issued, in order.                                                       *)
(***************************************************************************)
\* read that takes no notice of clear.
Bag_read_keeps_remote(o, remote) == remote \o o._added_elements

\* SynchronousBagRuntimeState.read().
Bag_read(o, remote) == (IF o._cleared THEN <<>> ELSE remote) \o o._added_elements

\* _compact_data(rewrite): the accumulator, the object, the requests.
Set_compact_data(o, remote, rewrite) ==
  LET accumulator == (IF o._cleared THEN {} ELSE Range(remote))
                       \cup o._added_elements
  IN  IF rewrite /\ accumulator # {}
      THEN [ret |-> accumulator,
            obj |-> [o EXCEPT !._added_elements = {}],
            issued |-> <<Request("clear", <<>>),
                         Request("extend", sorted(accumulator))>>]
      ELSE [ret |-> accumulator, obj |-> o, issued |-> <<>>]

\* add that drops the cleared flag without a clear at the service.
Set_add_forgets_clear(o, remote, value, compact) ==
  LET added == [_cleared |-> FALSE,
                _added_elements |-> o._added_elements \cup {value}]
      compacted == Set_compact_data(added, remote, TRUE)
  IN  IF compact
      THEN [obj |-> compacted.obj, issued |-> compacted.issued]
      ELSE [obj |-> added, issued |-> <<>>]

\* SynchronousSetRuntimeState.add(value); compact: random.random() > 0.5.
Set_add(o, remote, value, compact) ==
  LET cleared == IF o._cleared THEN <<Request("clear", <<>>)>> ELSE <<>>
      added == [_cleared |-> FALSE,
                _added_elements |-> o._added_elements \cup {value}]
      compacted == Set_compact_data(added, Completed(remote, cleared), TRUE)
  IN  IF compact
      THEN [obj |-> compacted.obj, issued |-> cleared \o compacted.issued]
      ELSE [obj |-> added, issued |-> cleared]

\* write that adds to the bag without the clear.
ReadModifyWrite_write_adds(o, value) ==
  [o EXCEPT !._added_elements = Append(@, value)]

\* ReadModifyWriteRuntimeState.write(value) on the underlying bag o.
ReadModifyWrite_write(o, value) ==
  [_cleared |-> TRUE, _added_elements |-> <<value>>]

(***************************************************************************)
(* commit() of the bag and of the set (the same code): the requests it     *)
(* issues and, by their positions among them, the ones it calls get() on.  *)
(***************************************************************************)
Bag_commit(o, elements) ==
  LET issued == (IF o._cleared THEN <<Request("clear", <<>>)>> ELSE <<>>)
                \o (IF elements # <<>> THEN <<Request("extend", elements)>>
                    ELSE <<>>)
  IN  [obj |-> o, issued |-> issued,
       to_await |-> IF issued = <<>> THEN <<>> ELSE <<Len(issued)>>]

\* commit that issues the append before the clears.
OrderedList_commit_append_first(o) ==
  LET removes == RangeSet_iter(o._pending_removes)
      clears == [i \in 1 .. Len(removes) |-> Request("clear_range", removes[i])]
      items_to_add == local_items(o._pending_adds, sorted(DOMAIN o._pending_adds))
      issued == (IF DOMAIN o._pending_adds # {}
                 THEN <<Request("extend_ordered", items_to_add)>>
                 ELSE <<>>) \o clears
  IN  [obj |-> [o EXCEPT !._pending_adds = <<>>,
                         !._pending_removes = RangeSet_init],
       issued |-> issued,
       to_await |-> [i \in 1 .. Len(issued) |-> i]]

\* SynchronousOrderedListRuntimeState.commit(), up to the loop of get();
\* _cleared is set to False when the loop is over.
OrderedList_commit(o) ==
  LET removes == RangeSet_iter(o._pending_removes)
      clears == [i \in 1 .. Len(removes) |-> Request("clear_range", removes[i])]
      items_to_add == local_items(o._pending_adds, sorted(DOMAIN o._pending_adds))
      issued == clears \o (IF DOMAIN o._pending_adds # {}
                           THEN <<Request("extend_ordered", items_to_add)>>
                           ELSE <<>>)
  IN  [obj |-> [o EXCEPT !._pending_adds = <<>>,
                         !._pending_removes = RangeSet_init],
       issued |-> issued,
       to_await |-> [i \in 1 .. Len(issued) |-> i]]

(***************************************************************************)
(* CombiningValueRuntimeState over a bag.  The combine function of the     *)
(* model sums and counts the values: an accumulator is <<sum, count>>.     *)
(***************************************************************************)
create_accumulator == <<0, 0>>

add_input(accumulator, value) == <<accumulator[1] + value, accumulator[2] + 1>>

RECURSIVE merge_accumulators(_)
merge_accumulators(accumulators) ==
  IF accumulators = <<>> THEN create_accumulator
  ELSE LET rest == merge_accumulators(Tail(accumulators))
       IN  <<accumulators[1][1] + rest[1], accumulators[1][2] + rest[2]>>

extract_output(accumulator) ==
  [sum |-> accumulator[1], count |-> accumulator[2]]

\* _read_accumulator(rewrite).
Combining_read_accumulator(o, remote, rewrite) ==
  LET merged_accumulator == merge_accumulators(Bag_read(o, remote))
  IN  [ret |-> merged_accumulator,
       obj |-> IF rewrite
               THEN [_cleared |-> TRUE, _added_elements |-> <<merged_accumulator>>]
               ELSE o]

\* add whose merge path leaves the bag as it is.
Combining_add_keeps_bag(o, remote, value, merge_path) ==
  LET accumulator == IF merge_path
                     THEN Combining_read_accumulator(o, remote, FALSE).ret
                     ELSE create_accumulator
  IN  [o EXCEPT !._added_elements = Append(@, add_input(accumulator, value))]

\* add(value); merge_path: random.random() < 0.5.
Combining_add(o, remote, value, merge_path) ==
  LET accumulator == IF merge_path
                     THEN Combining_read_accumulator(o, remote, FALSE).ret
                     ELSE create_accumulator
      bag == IF merge_path THEN [_cleared |-> TRUE, _added_elements |-> <<>>]
             ELSE o
  IN  [bag EXCEPT !._added_elements = Append(@, add_input(accumulator, value))]

(***************************************************************************)
(* One state object of one kind in one bundle: add, clear and read in any  *)
(* order, then commit, which issues its requests and waits while the       *)
(* service completes pending operations.  Before any commit the context    *)
(* may be reset once, which replaces the object of a bag or an ordered     *)
(* list by a new one; after a commit has returned the object may be read   *)
(* and committed a second time.  hist keeps the kind, the number of adds   *)
(* and clears, what the service held at first, whether clear was called,   *)
(* the values added since, the random choices the adds took, the pending   *)
(* operations whose get() has returned, the numbers of commits begun and   *)
(* of resets, the call that came before the latest commit and what the     *)
(* service held when each commit returned.  The read of a                  *)
(* read-modify-write state gives None or, as a list of one, the value; its *)
(* add is write.                                                           *)
(***************************************************************************)
MaxStateCommits == 2
MaxStateOps == 3

InitState ==
  /\ InitEngine(Descriptor({1, 2}, {<<1, 2>>}, {}, {}, {}, FALSE))
  /\ csIn = csIdle
  /\ csOut = None
  /\ csDone = FALSE
  /\ call = Called("", <<>>, None, "")
  /\ \E kind \in {"bag", "set", "ordered_list", "combining", "rmw"} :
       \E remote \in IF kind = "ordered_list"
                     THEN {<<>>, << <<0, 1>> >>, << <<0, 0>> >>}
                     ELSE IF kind = "rmw" THEN {<<>>, <<2, 1>>}
                     ELSE IF kind = "combining"
                     THEN {<<>>, << <<3, 2>> >>, << <<1, 1>>, <<2, 1>> >>}
                     ELSE {<<>>, <<1>>} :
         /\ obj = IF kind = "ordered_list" THEN OrderedList_init
                  ELSE IF kind = "set"
                  THEN [_cleared |-> FALSE, _added_elements |-> {}]
                  ELSE [_cleared |-> FALSE, _added_elements |-> <<>>]
         /\ handler = [remote |-> remote, requests |-> <<>>]
         /\ hist = [kind |-> kind, n |-> 0, stored |-> remote,
                    cleared |-> FALSE, added |-> <<>>, paths |-> {},
                    awaited |-> {}, commits |-> 0, resets |-> 0,
                    before |-> call, committed |-> <<>>]

InBundle == call.op \notin {"commit:await", "commit"} /\ hist.commits = 0

\* add; choice is the outcome of random.random() where the kind draws one.
StateAdd(key, value, choice) ==
  /\ InBundle
  /\ hist.n < MaxStateOps
  /\ hist.kind = "ordered_list" \/ key = 0
  /\ hist.kind \in {"set", "combining"} \/ choice = FALSE
  /\ LET r == IF hist.kind = "bag"
              THEN [obj |-> [obj EXCEPT !._added_elements = Append(@, value)],
                    issued |-> <<>>]
              ELSE IF hist.kind = "set"
              THEN Set_add(obj, handler.remote, value, choice)
              ELSE IF hist.kind = "combining"
              THEN [obj |-> Combining_add(obj, handler.remote, value, choice),
                    issued |-> <<>>]
              ELSE IF hist.kind = "rmw"
              THEN [obj |-> ReadModifyWrite_write(obj, value), issued |-> <<>>]
              ELSE [obj |-> OrderedList_add(obj, key, value).obj,
                    issued |-> <<>>]
     IN  /\ obj' = r.obj
         /\ handler' = [remote |-> Completed(handler.remote, r.issued),
                        requests |-> handler.requests \o r.issued]
  /\ call' = Called("add", <<key, value>>, None, "")
  /\ hist' = [hist EXCEPT !.n = @ + 1, !.added = Append(@, value),
                          !.paths = @ \cup {choice}]
  /\ UNCHANGED <<csVars, engineVars>>

\* clear() that clears at the service at once.
StateClear_writes_through(min_key, limit_key) ==
  /\ InBundle
  /\ hist.n < MaxStateOps
  /\ IF <<min_key, limit_key>> = <<RANGE_MIN, RANGE_MAX>>
     THEN /\ obj' = IF hist.kind = "ordered_list" THEN OrderedList_clear(obj)
                    ELSE IF hist.kind = "set"
                    THEN [_cleared |-> TRUE, _added_elements |-> {}]
                    ELSE [_cleared |-> TRUE, _added_elements |-> <<>>]
          /\ call' = Called("clear", <<>>, None, "")
          /\ hist' = [hist EXCEPT !.n = @ + 1, !.cleared = TRUE,
                                  !.added = <<>>]
          /\ handler' = [remote |-> <<>>,
                         requests |-> Append(handler.requests,
                                             Request("clear", <<>>))]
     ELSE /\ hist.kind = "ordered_list"
          /\ obj' = OrderedList_clear_range(obj, min_key, limit_key)
          /\ call' = Called("clear_range", <<min_key, limit_key>>, None, "")
          /\ hist' = [hist EXCEPT !.n = @ + 1]
          /\ UNCHANGED handler
  /\ UNCHANGED <<csVars, engineVars>>

\* clear(), or clear_range(min_key, limit_key) of an ordered list when the
\* range is not the whole range of keys.
StateClear(min_key, limit_key) ==
  /\ InBundle
  /\ hist.n < MaxStateOps
  /\ IF <<min_key, limit_key>> = <<RANGE_MIN, RANGE_MAX>>
     THEN /\ obj' = IF hist.kind = "ordered_list" THEN OrderedList_clear(obj)
                    ELSE IF hist.kind = "set"
                    THEN [_cleared |-> TRUE, _added_elements |-> {}]
                    ELSE [_cleared |-> TRUE, _added_elements |-> <<>>]
          /\ call' = Called("clear", <<>>, None, "")
          /\ hist' = [hist EXCEPT !.n = @ + 1, !.cleared = TRUE,
                                  !.added = <<>>]
     ELSE /\ hist.kind = "ordered_list"
          /\ obj' = OrderedList_clear_range(obj, min_key, limit_key)
          /\ call' = Called("clear_range", <<min_key, limit_key>>, None, "")
          /\ hist' = [hist EXCEPT !.n = @ + 1]
  /\ UNCHANGED <<csVars, handler, engineVars>>

StateRead ==
  /\ call.op # "commit:await"
  /\ hist.commits = 0 \/ hist.kind \in {"bag", "set", "ordered_list"}
  /\ LET r == IF hist.kind = "bag"
              THEN [obj |-> obj, ret |-> Bag_read(obj, handler.remote),
                    raised |-> ""]
              ELSE IF hist.kind = "set"
              THEN [obj |-> obj,
                    ret |-> Set_compact_data(obj, handler.remote, FALSE).ret,
                    raised |-> ""]
              ELSE IF hist.kind = "combining"
              THEN LET a == Combining_read_accumulator(obj, handler.remote, TRUE)
                   IN  [obj |-> a.obj, ret |-> extract_output(a.ret),
                        raised |-> ""]
              ELSE IF hist.kind = "rmw"
              THEN LET values == Bag_read(obj, handler.remote)
                   IN  [obj |-> obj,
                        ret |-> IF values = <<>> THEN None ELSE <<values[1]>>,
                        raised |-> ""]
              ELSE LET l == OrderedList_read_range(obj, handler.remote,
                                                   RANGE_MIN, RANGE_MAX)
                   IN  [obj |-> obj, ret |-> l.items, raised |-> l.raised]
     IN  /\ obj' = r.obj
         /\ call' = Called("read", <<>>, r.ret, r.raised)
  /\ UNCHANGED <<csVars, handler, hist, engineVars>>

\* commit() up to its first get(): args are the requests it has issued and
\* ret the ones it has yet to wait on, by their positions at the service.
CommitIssue ==
  /\ call.op # "commit:await"
  /\ hist.commits < MaxStateCommits
  /\ \/ hist.commits = 0
     \/ call.op = "commit" /\ hist.kind \in {"bag", "set", "ordered_list"}
  /\ LET r == IF hist.kind = "ordered_list" THEN OrderedList_commit(obj)
              ELSE IF hist.kind = "set"
              THEN Bag_commit(obj, sorted(obj._added_elements))
              ELSE Bag_commit(obj, obj._added_elements)
         base == Len(handler.requests)
     IN  /\ obj' = r.obj
         /\ handler' = [remote |-> Completed(handler.remote, r.issued),
                        requests |-> handler.requests \o r.issued]
         /\ call' = Called("commit:await",
                           [i \in 1 .. Len(r.issued) |-> base + i],
                           [i \in 1 .. Len(r.to_await) |-> base + r.to_await[i]],
                           "")
  /\ hist' = [hist EXCEPT !.commits = @ + 1, !.before = call]
  /\ UNCHANGED <<csVars, engineVars>>

\* One get() of commit returns, or commit returns when none is left.
CommitAwait ==
  /\ call.op = "commit:await"
  /\ IF call.ret = <<>>
     THEN /\ call' = [call EXCEPT !.op = "commit"]
          /\ obj' = IF hist.kind = "ordered_list"
                    THEN [obj EXCEPT !._cleared = FALSE] ELSE obj
          /\ hist' = [hist EXCEPT !.committed = Append(@, handler.remote)]
     ELSE /\ handler.requests[Head(call.ret)].done
          /\ call' = [call EXCEPT !.ret = Tail(@)]
          /\ hist' = [hist EXCEPT !.awaited = @ \cup {Head(call.ret)}]
          /\ obj' = obj
  /\ UNCHANGED <<csVars, handler, engineVars>>

\* The service completes the pending operation i.
HandlerComplete(i) ==
  /\ ~handler.requests[i].done
  /\ handler' = [handler EXCEPT !.requests[i].done = TRUE]
  /\ UNCHANGED <<csVars, obj, call, hist, engineVars>>

\* FnApiUserStateContext.reset() in a bundle that has not committed, for a
\* bag or an ordered list: the state object is finalized (which does nothing
\* for these kinds) and dropped, and the next get_state makes a new one for
\* the state key.
StateReset ==
  /\ InBundle
  /\ hist.commits = 0
  /\ hist.resets = 0
  /\ hist.kind \in {"bag", "ordered_list"}
  /\ obj' = IF hist.kind = "ordered_list" THEN OrderedList_init
            ELSE [_cleared |-> FALSE, _added_elements |-> <<>>]
  /\ call' = Called("reset", <<>>, None, "")
  /\ hist' = [hist EXCEPT !.resets = @ + 1, !.cleared = FALSE,
                          !.added = <<>>]
  /\ UNCHANGED <<csVars, handler, engineVars>>

NextState ==
  \/ \E key \in {0, 1}, value \in {1, 2}, choice \in BOOLEAN :
       StateAdd(key, value, choice)
  \/ StateReset
  \/ \E r \in {<<RANGE_MIN, RANGE_MAX>>, <<-2, -1>>, <<1, 2>>} :
       StateClear(r[1], r[2])
  \/ StateRead
  \/ CommitIssue
  \/ CommitAwait
  \/ \E i \in 1 .. Len(handler.requests) : HandlerComplete(i)

SpecState == InitState /\ [][NextState]_vars

(***************************************************************************)
(* The caches of one DoOperation of a processor that is used for bundle    *)
(* after bundle: the state objects of its FnApiUserStateContext and the    *)
(* views of one StateBackedSideInputMap.  obj holds _all_states (from the  *)
(* arguments of get_state to the object), the objects by identity, and     *)
(* _cache (from the target window to the view); a view is named by the     *)
(* ordinal of the view_fn call that made it.  An object carries the number *)
(* of setup and of teardown calls its own copy of the combine fn has had.  *)
(* hist counts, for each object, the calls of its commit, and for each     *)
(* target window the calls of view_fn since the last reset of the map, and *)
(* keeps the view each main-input window was last given since that reset.  *)
(***************************************************************************)
MaxObjects == 2
MaxViews == 2
MaxCommits == 1
MaxResets == 1

InitOperator ==
  /\ InitEngine(Descriptor({1, 2}, {<<1, 2>>}, {}, {}, {}, FALSE))
  /\ csIn = csIdle
  /\ csOut = None
  /\ csDone = FALSE
  /\ call = Called("", <<>>, None, "")
  /\ handler = None
  /\ \E access_pattern \in {"multimap", "other"} :
       obj = [_all_states |-> <<>>, states |-> <<>>, _cache |-> <<>>,
              access_pattern |-> access_pattern]
  /\ hist = [commits |-> <<>>, ncommits |-> 0, nresets |-> 0, views |-> 0,
             view_fn |-> [target_window \in {1, 2} |-> 0], served |-> <<>>]

\* get_state that creates the state object whatever _all_states holds.
GetState_creates_always(args) ==
  IF args[1] \notin {"bag", "combining", "rmw", "set", "ordered_list"}
  THEN /\ call' = Called("get_state", args, None, "NotImplementedError")
       /\ UNCHANGED <<obj, handler, hist, csVars, engineVars>>
  ELSE /\ Len(obj.states) < MaxObjects
       /\ LET state_handle == Len(obj.states) + 1 IN
            /\ obj' = [obj EXCEPT
                 !.states = Append(@,
                   [spec |-> args[1], _finalized |-> FALSE,
                    setup |-> IF args[1] = "combining" THEN 1 ELSE 0,
                    teardown |-> 0]),
                 !._all_states = (args :> state_handle) @@ @]
            /\ hist' = [hist EXCEPT !.commits = Append(@, 0)]
            /\ call' = Called("get_state", args, state_handle, "")
       /\ UNCHANGED <<handler, csVars, engineVars>>

\* FnApiUserStateContext.get_state(*args), with _create_state and, for a
\* combining spec, CombiningValueRuntimeState.__init__.
GetState(args) ==
  IF args \in DOMAIN obj._all_states
  THEN /\ call' = Called("get_state", args, obj._all_states[args], "")
       /\ UNCHANGED <<obj, handler, hist, csVars, engineVars>>
  ELSE IF args[1] \notin {"bag", "combining", "rmw", "set", "ordered_list"}
  THEN /\ call' = Called("get_state", args, None, "NotImplementedError")
       /\ UNCHANGED <<obj, handler, hist, csVars, engineVars>>
  ELSE /\ Len(obj.states) < MaxObjects
       /\ LET state_handle == Len(obj.states) + 1 IN
            /\ obj' = [obj EXCEPT
                 !.states = Append(@,
                   [spec |-> args[1], _finalized |-> FALSE,
                    setup |-> IF args[1] = "combining" THEN 1 ELSE 0,
                    teardown |-> 0]),
                 !._all_states = @ @@ (args :> state_handle)]
            /\ hist' = [hist EXCEPT !.commits = Append(@, 0)]
            /\ call' = Called("get_state", args, state_handle, "")
       /\ UNCHANGED <<handler, csVars, engineVars>>

\* finalize that tears the combine fn down at every call.
finalize_every_call(states, S) ==
  [id \in DOMAIN states |->
     IF id \in S /\ states[id].spec = "combining"
     THEN [states[id] EXCEPT !._finalized = TRUE, !.teardown = @ + 1]
     ELSE states[id]]

\* finalize of the state objects S: CombiningValueRuntimeState.finalize
\* tears the combine fn down unless _finalized; the other kinds do nothing.
finalize(states, S) ==
  [id \in DOMAIN states |->
     IF id \in S /\ states[id].spec = "combining" /\ ~states[id]._finalized
     THEN [states[id] EXCEPT !._finalized = TRUE, !.teardown = @ + 1]
     ELSE states[id]]

\* A holder of the state object id calls finalize on it.
Finalize(id) ==
  /\ id \in DOMAIN obj.states
  /\ obj' = [obj EXCEPT !.states = finalize(@, {id})]
  /\ call' = Called("finalize", id, None, "")
  /\ UNCHANGED <<handler, hist, csVars, engineVars>>

\* FnApiUserStateContext.commit(): commit of every value of _all_states.
ContextCommit ==
  /\ hist.ncommits < MaxCommits
  /\ hist' = [hist EXCEPT
       !.ncommits = @ + 1,
       !.commits = [i \in DOMAIN @ |->
          @[i] + Cardinality({args \in DOMAIN obj._all_states :
                                obj._all_states[args] = i})]]
  /\ call' = Called("commit", <<>>, None, "")
  /\ UNCHANGED <<obj, handler, csVars, engineVars>>

\* The window mapping of the side input: the main-input windows 1 and 2 map
\* to the target window 1, and 3 to 2.
window_mapping_fn(window) == (window + 1) \div 2

\* __getitem__ that makes the view without a look at the cache.
GetItem_rebuilds(window) ==
  LET target_window == window_mapping_fn(window) IN
    IF obj.access_pattern \notin {"iterable", "multimap"}
    THEN /\ call' = Called("__getitem__", window, None, "ValueError")
         /\ UNCHANGED <<obj, handler, hist, csVars, engineVars>>
    ELSE /\ hist.views < MaxViews
         /\ hist' = [hist EXCEPT !.views = @ + 1,
                                 !.view_fn[target_window] = @ + 1,
                                 !.served = (window :> hist.views + 1) @@ @]
         /\ obj' = [obj EXCEPT !._cache =
                      (target_window :> hist'.views) @@ @]
         /\ call' = Called("__getitem__", window, hist'.views, "")
         /\ UNCHANGED <<handler, csVars, engineVars>>

\* StateBackedSideInputMap.__getitem__(window).
GetItem(window) ==
  LET target_window == window_mapping_fn(window) IN
    IF target_window \in DOMAIN obj._cache
    THEN /\ call' = Called("__getitem__", window, obj._cache[target_window], "")
         /\ hist' = [hist EXCEPT !.served =
                       (window :> obj._cache[target_window]) @@ @]
         /\ UNCHANGED <<obj, handler, csVars, engineVars>>
    ELSE IF obj.access_pattern \notin {"iterable", "multimap"}
    THEN /\ call' = Called("__getitem__", window, None, "ValueError")
         /\ UNCHANGED <<obj, handler, hist, csVars, engineVars>>
    ELSE /\ hist.views < MaxViews
         /\ hist' = [hist EXCEPT !.views = @ + 1,
                                 !.view_fn[target_window] = @ + 1,
                                 !.served = (window :> hist.views + 1) @@ @]
         /\ obj' = [obj EXCEPT !._cache = @ @@ (target_window :> hist'.views)]
         /\ call' = Called("__getitem__", window, hist'.views, "")
         /\ UNCHANGED <<handler, csVars, engineVars>>

\* FnApiUserStateContext.reset() and StateBackedSideInputMap.reset().
CacheReset ==
  /\ obj' = [obj EXCEPT
       !.states = finalize(@, {obj._all_states[args] :
                                 args \in DOMAIN obj._all_states}),
       !._all_states = <<>>,
       !._cache = <<>>]
  /\ hist' = [hist EXCEPT
       !.nresets = @ + 1,
       !.view_fn = [target_window \in DOMAIN @ |-> 0],
       !.served = <<>>]
  /\ UNCHANGED <<handler, csVars, engineVars>>

\* The calls a DoOperation and the holders of its state objects make, in any
\* order.
NextOperator ==
  \/ \E args \in {<<"combining", "k", 1>>, <<"combining", "k", 2>>,
                   <<"bag", "k", 1>>, <<"other", "k", 1>>} : GetState(args)
  \/ \E window \in 1 .. 3 : GetItem(window)
  \/ ContextCommit
  \/ \E id \in 1 .. MaxObjects : Finalize(id)
  \/ /\ hist.nresets < MaxResets
     /\ CacheReset
     /\ call' = Called("reset", <<>>, None, "")

SpecOperator == InitOperator /\ [][NextOperator]_vars

\* The reset of the DoOperation, one turn of the loop of
\* BundleProcessor.reset: it resets the user state context and the side
\* input maps of the operator.  The record of the call keeps what the input
\* adapter held when the bundle had ended.
OperatorReset ==
  /\ pc["w1"] = "done"
  /\ hist.nresets < bundles
  /\ CacheReset
  /\ call' = Called("reset", <<index[1], stop[1]>>, None, "")

\* One caller and one splitter on a processor of one input adapter and one
\* DoOperation, which asks for a state object and a side input view while
\* an element is processed; the loop of BundleProcessor.reset comes to the
\* DoOperation first.
NextProcessor ==
  \/ bundles < MaxBundles /\ ProcessBundle("w1", InstructionSeq[bundles + 1])
  \/ StartOp("w1", FALSE)
  \/ SetUpInputs("w1")
  \/ TotalDelivered("w1") = 0 /\ DeliverData("w1", 1, MaxElems)
  \/ ProcessEncodedLocked("w1")
  \/ ProcessEncodedOutput("w1", FALSE, 0)
  \/ EndOfInput("w1")
  \/ FinishOp("w1", FALSE)
  \/ CloseTimers("w1")
  \/ Finally("w1")
  \/ hist.nresets = bundles /\ Reset("w1")
  \/ OperatorReset
  \/ nSplits < bundles /\ InFlight("w1") /\ TrySplitBegin(instr["w1"])
  \/ /\ spc = "ops" /\ ~loop_done(spos)
     /\ IF is_data_input(descriptor, ops[spos])
        THEN TrySplitOp(DesiredSplit(Rat(0, 1), MaxElems, {}), Rat(1, 2), FALSE)
        ELSE TrySplitOp(NoDesiredSplit, Rat(1, 2), FALSE)
  \/ TrySplitEnd
  \/ /\ pc["w1"] = "pe_decode"
     /\ \/ \E args \in {<<"bag", "k", 1>>, <<"other", "k", 1>>} : GetState(args)
        \/ GetItem(1)

SpecProcessor == InitOperator /\ [][NextProcessor]_vars

(***************************************************************************)
(* The MultiMap view that StateBackedSideInputMap.__getitem__ builds for   *)
(* one target window, with the threads (Callers) that look keys up in it.  *)
(* handler is                                                              *)
(* the multimap the runner holds for the window: the keys 1 .. n in the    *)
(* order of the keys-values iteration, which raises after raises_at pairs  *)
(* when raises_at is a number.  obj holds the closure of the view: cache   *)
(* (a bulk-read entry is <<"vs", k>>, the values of k; a point lookup is    *)
(* <<"point", i>>, the i-th _StateBackedIterable made for a key),          *)
(* _bulk_read ("None" until it is set), _lock (its holder), use_bulk_read, *)
(* and for each thread its place in __getitem__ and its key, and ix of the *)
(* loop.  hist counts the lookups, the                                     *)
(* bulk reads begun, who began them and who stood at the lock then, the    *)
(* point lookups made, the turns of the keys-values iteration, and keeps   *)
(* what each thread read of _bulk_read after the lock.                     *)
(***************************************************************************)
_BULK_READ_LIMIT == 100
MaxLookups == 3

InitMultiMap ==
  /\ InitEngine(Descriptor({1, 2}, {<<1, 2>>}, {}, {}, {}, FALSE))
  /\ csIn = csIdle
  /\ csOut = None
  /\ csDone = FALSE
  /\ call = Called("", <<>>, None, "")
  /\ \E n \in {0, _BULK_READ_LIMIT, _BULK_READ_LIMIT + 1,
               _BULK_READ_LIMIT + 2, _BULK_READ_LIMIT + 3} :
       \E raises_at \in {<<>>, <<1>>} :
         handler = [n |-> n, raises_at |-> raises_at]
  /\ \E use_bulk_read \in BOOLEAN :
       obj = [cache |-> <<>>, _bulk_read |-> "None", _lock |-> "",
              use_bulk_read |-> use_bulk_read,
              pc |-> [t \in Callers |-> "idle"],
              key |-> [t \in Callers |-> 0], ix |-> 0]
  /\ hist = [lookups |-> 0, bulk |-> 0, by |-> {}, waited |-> {},
             points |-> 0, requests |-> 0, seen |-> [t \in Callers |-> ""]]

\* MultiMap.__getitem__(key) by thread t, up to the first look at _bulk_read.
MultiMapGetItem(t, key) ==
  /\ obj.pc[t] = "idle"
  /\ hist.lookups < MaxLookups
  /\ obj' = [obj EXCEPT
       !.key[t] = key,
       !.pc[t] = IF obj.use_bulk_read /\ obj._bulk_read = "None"
                 THEN "lock" ELSE "bulk_read"]
  /\ hist' = [hist EXCEPT !.lookups = @ + 1, !.seen[t] = ""]
  /\ UNCHANGED <<handler, call, csVars, engineVars>>

\* A bulk read that an error of the iteration leaves to be tried again.
BulkRead_retries(t) ==
  /\ obj.pc[t] = "loop"
  /\ IF handler.raises_at = <<obj.ix>>
     THEN /\ obj' = [obj EXCEPT !._lock = "", !.pc[t] = "bulk_read"]
          /\ hist' = [hist EXCEPT !.requests = @ + 1]
     ELSE IF obj.ix >= handler.n
     THEN /\ obj' = [obj EXCEPT !._bulk_read = "fully", !._lock = "",
                                !.pc[t] = "bulk_read"]
          /\ hist' = [hist EXCEPT !.requests = @ + 1]
     ELSE LET k == obj.ix + 1
              cache == (k :> <<"vs", k>>) @@ obj.cache
          IN /\ obj' = IF obj.ix > _BULK_READ_LIMIT
                       THEN [obj EXCEPT !.cache = cache,
                                        !._bulk_read = "partially",
                                        !._lock = "", !.pc[t] = "bulk_read"]
                       ELSE [obj EXCEPT !.cache = cache, !.ix = @ + 1]
             /\ hist' = [hist EXCEPT !.requests = @ + 1]
  /\ UNCHANGED <<handler, call, csVars, engineVars>>

\* One turn of the bulk-read loop over the keys-values iteration, under the
\* lock: the next pair is cached before ix is compared with the limit.
BulkRead(t) ==
  /\ obj.pc[t] = "loop"
  /\ IF handler.raises_at = <<obj.ix>>
     THEN /\ obj' = [obj EXCEPT !._bulk_read = "partially", !._lock = "",
                                !.pc[t] = "bulk_read"]
          /\ hist' = [hist EXCEPT !.requests = @ + 1]
     ELSE IF obj.ix >= handler.n
     THEN /\ obj' = [obj EXCEPT !._bulk_read = "fully", !._lock = "",
                                !.pc[t] = "bulk_read"]
          /\ hist' = [hist EXCEPT !.requests = @ + 1]
     ELSE LET k == obj.ix + 1
              cache == (k :> <<"vs", k>>) @@ obj.cache
          IN /\ obj' = IF obj.ix > _BULK_READ_LIMIT
                       THEN [obj EXCEPT !.cache = cache,
                                        !._bulk_read = "partially",
                                        !._lock = "", !.pc[t] = "bulk_read"]
                       ELSE [obj EXCEPT !.cache = cache, !.ix = @ + 1]
             /\ hist' = [hist EXCEPT !.requests = @ + 1]
  /\ UNCHANGED <<handler, call, csVars, engineVars>>

\* __getitem__ without the second look at _bulk_read under the lock.
MultiMapStep_one_look(t) ==
  /\ obj.pc[t] \in {"lock", "bulk_read", "point", "return"}
  /\ IF obj.pc[t] = "lock"
     THEN /\ obj._lock = ""
          /\ IF TRUE
             THEN /\ obj' = [obj EXCEPT !._lock = t, !.ix = 0, !.pc[t] = "loop"]
                  /\ hist' = [hist EXCEPT
                       !.bulk = @ + 1, !.by = @ \cup {t},
                       !.waited = @ \cup {u \in Callers \ {t} :
                                            obj.pc[u] = "lock"}]
             ELSE /\ obj' = [obj EXCEPT !.pc[t] = "bulk_read"]
                  /\ UNCHANGED hist
          /\ UNCHANGED call
     ELSE IF obj.pc[t] = "bulk_read"
     THEN /\ hist' = [hist EXCEPT !.seen[t] = obj._bulk_read]
          /\ IF obj.use_bulk_read /\ obj._bulk_read = "fully"
             THEN /\ obj' = [obj EXCEPT !.pc[t] = "idle"]
                  /\ call' = Called("MultiMap.__getitem__", <<t, obj.key[t]>>,
                               IF obj.key[t] \in DOMAIN obj.cache
                               THEN obj.cache[obj.key[t]] ELSE <<>>, "")
             ELSE /\ obj' = [obj EXCEPT !.pc[t] =
                               IF obj.key[t] \in DOMAIN obj.cache
                               THEN "return" ELSE "point"]
                  /\ UNCHANGED call
     ELSE IF obj.pc[t] = "point"
     THEN /\ obj' = [obj EXCEPT
               !.cache = (obj.key[t] :> <<"point", hist.points + 1>>) @@ @,
               !.pc[t] = "return"]
          /\ hist' = [hist EXCEPT !.points = @ + 1]
          /\ UNCHANGED call
     ELSE /\ obj' = [obj EXCEPT !.pc[t] = "idle"]
          /\ call' = Called("MultiMap.__getitem__", <<t, obj.key[t]>>,
                            obj.cache[obj.key[t]], "")
          /\ UNCHANGED hist
  /\ UNCHANGED <<handler, csVars, engineVars>>

\* The rest of MultiMap.__getitem__ for thread t: the lock and the second
\* look at _bulk_read, the answer of a fully read map, the point lookup and
\* return cache[key].
MultiMapStep(t) ==
  /\ obj.pc[t] \in {"lock", "bulk_read", "point", "return"}
  /\ IF obj.pc[t] = "lock"
     THEN /\ obj._lock = ""
          /\ IF obj._bulk_read = "None"
             THEN /\ obj' = [obj EXCEPT !._lock = t, !.ix = 0, !.pc[t] = "loop"]
                  /\ hist' = [hist EXCEPT
                       !.bulk = @ + 1, !.by = @ \cup {t},
                       !.waited = @ \cup {u \in Callers \ {t} :
                                            obj.pc[u] = "lock"}]
             ELSE /\ obj' = [obj EXCEPT !.pc[t] = "bulk_read"]
                  /\ UNCHANGED hist
          /\ UNCHANGED call
     ELSE IF obj.pc[t] = "bulk_read"
     THEN /\ hist' = [hist EXCEPT !.seen[t] = obj._bulk_read]
          /\ IF obj.use_bulk_read /\ obj._bulk_read = "fully"
             THEN /\ obj' = [obj EXCEPT !.pc[t] = "idle"]
                  /\ call' = Called("MultiMap.__getitem__", <<t, obj.key[t]>>,
                               IF obj.key[t] \in DOMAIN obj.cache
                               THEN obj.cache[obj.key[t]] ELSE <<>>, "")
             ELSE /\ obj' = [obj EXCEPT !.pc[t] =
                               IF obj.key[t] \in DOMAIN obj.cache
                               THEN "return" ELSE "point"]
                  /\ UNCHANGED call
     ELSE IF obj.pc[t] = "point"
     THEN /\ obj' = [obj EXCEPT
               !.cache = (obj.key[t] :> <<"point", hist.points + 1>>) @@ @,
               !.pc[t] = "return"]
          /\ hist' = [hist EXCEPT !.points = @ + 1]
          /\ UNCHANGED call
     ELSE /\ obj' = [obj EXCEPT !.pc[t] = "idle"]
          /\ call' = Called("MultiMap.__getitem__", <<t, obj.key[t]>>,
                            obj.cache[obj.key[t]], "")
          /\ UNCHANGED hist
  /\ UNCHANGED <<handler, csVars, engineVars>>

\* The threads look up a key the bulk read reaches first and a key past
\* everything it can reach.
NextMultiMap ==
  \E t \in Callers :
    \/ \E key \in {1, _BULK_READ_LIMIT + 3} : MultiMapGetItem(t, key)
    \/ BulkRead(t)
    \/ MultiMapStep(t)

SpecMultiMap == InitMultiMap /\ [][NextMultiMap]_vars

(***************************************************************************)
(* Properties.                                                             *)
(***************************************************************************)
\* The ordinals 0 .. n - 1 in increasing order.
Ordinals(n) == [j \in 1 .. n |-> j - 1]

\* C1, first half: under every interleaving of try_split with
\* process_encoded, no element whose ordinal is at or past the current stop
\* has been passed downstream, and none is being decoded.
C1_NoEmitPastStop ==
  \A w \in Callers : \A t \in InputOps(descriptor) :
    stop[t] # Inf =>
      /\ \A k \in Range(emitted[w][t]) : k < stop[t]
      /\ (pc[w] = "pe_decode" /\ cur[w] = t) => ord[w] < stop[t]

\* C1, second half: a turn of process_encoded that finds index = stop - 1
\* returns at once: nothing is emitted, index stays, and what is left of the
\* buffer is dropped.
C1_ReturnsAtStop ==
  \A w \in Callers :
    ( /\ pc[w] = "pe_lock" /\ pc'[w] # "pe_lock"
      /\ stop[cur[w]] # Inf /\ index[cur[w]] = stop[cur[w]] - 1 )
    => /\ pc'[w] = "input"
       /\ buf'[w] = 0
       /\ index' = index
       /\ emitted' = emitted

\* C1: once try_split has set stop = k, process_encoded never emits an element
\* of ordinal >= k, and at index = stop - 1 it returns immediately without
\* consuming the rest of the buffer.
C1_StopIsRespected == []C1_NoEmitPastStop /\ [][C1_ReturnsAtStop]_vars

\* A split capped the input below what the channel delivered: the elements
\* before the stop were emitted and the rest of the buffer was dropped.
C1_Witness ==
  \E t \in InputOps(descriptor) :
    /\ pc["w1"] = "input"
    /\ stop[t] # Inf /\ stop[t] >= 1
    /\ index[t] = stop[t] - 1
    /\ emitted["w1"][t] = Ordinals(stop[t])
    /\ delivered["w1"][t] > stop[t]
    /\ buf["w1"] = 0

\* C2: a try_split whose instruction differs from the current one (also when
\* no bundle is in flight) returns at once with an empty response and leaves
\* index and stop of every input as they were.
C2_StaleSplitIsEmpty ==
  [][ (nSplits' = nSplits + 1 /\ sreq' # current_instruction_id)
      => /\ spc' = "idle"
         /\ sresp' = EmptyResponse
         /\ index' = index
         /\ stop' = stop
         /\ splitting_lock' = splitting_lock ]_vars

\* A request for another instruction arrived while a bundle was in flight.
C2_Witness ==
  /\ nSplits >= 1
  /\ spc = "idle"
  /\ sflight = {"w1"}
  /\ sreq # instr["w1"]
  /\ current_instruction_id = instr["w1"]
  /\ pc["w1"] = "pe_decode"

\* C3, the marker: whenever no process_bundle is between its marking and
\* the end of its finally clause, no instruction is current.
C3_MarkerCleared ==
  (\A w \in Callers : ~InFlight(w)) => current_instruction_id = NoInstruction

\* C3, the splits: the finally clause clears the marker with the splitting
\* lock free for it to take, and a try_split that takes the lock while no
\* bundle is in flight returns an empty response and changes no stop.
C3_SplitAfterExit ==
  /\ \A w \in Callers :
       (pc[w] = "finally" /\ pc'[w] = "done")
       => splitting_lock = "free" /\ current_instruction_id' = NoInstruction
  /\ (nSplits' = nSplits + 1 /\ sflight' = {})
     => /\ spc' = "idle"
        /\ sresp' = EmptyResponse
        /\ stop' = stop

\* C3: on every exit path of process_bundle (return, or an exception of start,
\* of input dispatch or of finish) the marker is cleared under the splitting
\* lock, so that a try_split that takes the lock afterwards gets an empty
\* response and changes no stop.
C3_ExitClearsMarker == []C3_MarkerCleared /\ [][C3_SplitAfterExit]_vars

\* A bundle failed in input dispatch, and a split request came after it.
C3_Witness ==
  /\ pc["w1"] = "done"
  /\ result["w1"] = "raised"
  /\ \E j \in 1 .. Len(events["w1"]) :
       events["w1"][j].e = "raise" /\ events["w1"][j - 1].e = "dispatch"
  /\ nSplits >= 1
  /\ sflight = {}
  /\ sreq = instr["w1"]
  /\ spc = "idle"

\* C4 as the spec states it: process_bundle fails when another instruction is
\* current, so the marker of a bundle in flight is never overwritten: while a
\* caller's bundle is in flight the marker is that bundle's instruction.
C4_MarkerNeverOverwritten ==
  \A w \in Callers :
    InFlight(w) => current_instruction_id = instr[w]

\* C4 as the code has it: process_bundle makes no test of the marker; every
\* call goes on to the start loop with its own instruction marked current,
\* whatever was current before, and the finally clause of any caller clears
\* the marker.
C4_MarkerIsLastCaller ==
  [][ \A w \in Callers :
        /\ (pc[w] = "idle" /\ pc'[w] # "idle")
           => /\ pc'[w] = "start"
              /\ current_instruction_id' = instr'[w]
        /\ (pc[w] = "finally" /\ pc'[w] = "done")
           => current_instruction_id' = NoInstruction ]_vars

\* A second process_bundle was called while a bundle was in flight and has
\* replaced its marker.
C4_Witness ==
  /\ InFlight("w1") /\ pc["w1"] = "pe_decode"
  /\ pc["w2"] = "start"
  /\ instr["w1"] # instr["w2"]
  /\ current_instruction_id = instr["w2"]

StartedBefore(ev, j, t) == \E i \in 1 .. j - 1 : ev[i] = Ev("start", t)

FinishedBefore(ev, j, t) == \E i \in 1 .. j - 1 : ev[i] = Ev("finish", t)

\* C5: for every acyclic stage graph, a node is started only after every one
\* of its (non-side-input) consumers has been started, and finished only
\* after every one of its producers has been finished.
C5_DownstreamFirstUpstreamFirst ==
  \A w \in Callers : \A j \in 1 .. Len(events[w]) :
    LET ev == events[w] IN
      /\ ev[j].e = "start" =>
           \A c \in pcoll_consumers(descriptor, ev[j].t) : StartedBefore(ev, j, c)
      /\ ev[j].e = "finish" =>
           \A p \in producers(descriptor, ev[j].t) : FinishedBefore(ev, j, p)

\* A chain of three nodes ran to its return.
C5_Witness ==
  /\ result["w1"] = "ok"
  /\ \E a, b, c \in TransformIds :
       /\ {<<a, b>>, <<b, c>>} \subseteq descriptor.main
       /\ \E i, j \in 1 .. Len(events["w1"]) :
            /\ i < j
            /\ events["w1"][i] = Ev("start", c)
            /\ events["w1"][j] = Ev("start", a)
       /\ \E i, j \in 1 .. Len(events["w1"]) :
            /\ i < j
            /\ events["w1"][i] = Ev("finish", a)
            /\ events["w1"][j] = Ev("finish", c)

\* The height of the spec: 1 + the greatest height of a consumer, 1 for a sink.
RECURSIVE Height(_, _)
Height(d, t) ==
  LET cs == {c \in d.transforms : <<t, c>> \in d.main}
  IN  IF cs = {} THEN 1
      ELSE 1 + (CHOOSE h \in {Height(d, c) : c \in cs} :
                  \A g \in {Height(d, c) : c \in cs} : g <= h)

\* C6 as the spec states it: nodes are started in descending height and
\* finished in ascending height.
C6_StartDescendingFinishAscending ==
  \A w \in Callers : \A i, j \in 1 .. Len(events[w]) :
    LET ev == events[w] IN
      i < j =>
        /\ (ev[i].e = "start" /\ ev[j].e = "start")
           => Height(descriptor, ev[i].t) >= Height(descriptor, ev[j].t)
        /\ (ev[i].e = "finish" /\ ev[j].e = "finish")
           => Height(descriptor, ev[i].t) <= Height(descriptor, ev[j].t)

\* C6 as the code has it: nodes are started in ascending height (sinks first)
\* and finished in descending height (sources first).
C6_StartAscendingFinishDescending ==
  \A w \in Callers : \A i, j \in 1 .. Len(events[w]) :
    LET ev == events[w] IN
      i < j =>
        /\ (ev[i].e = "start" /\ ev[j].e = "start")
           => Height(descriptor, ev[i].t) <= Height(descriptor, ev[j].t)
        /\ (ev[i].e = "finish" /\ ev[j].e = "finish")
           => Height(descriptor, ev[i].t) >= Height(descriptor, ev[j].t)

\* A stage with nodes of heights 1, 2 and 3 ran to its return.
C6_Witness ==
  /\ result["w1"] = "ok"
  /\ {Height(descriptor, t) : t \in TransformIds} = {1, 2, 3}
  /\ \E i \in 1 .. Len(events["w1"]) :
       /\ events["w1"][i].e = "start"
       /\ Height(descriptor, events["w1"][i].t) = 1
       /\ events["w1"][i + 1].e = "start"
       /\ Height(descriptor, events["w1"][i + 1].t) = 2

\* The phase of process_bundle a step belongs to.
Phase(e) ==
  CASE e = "mark" -> 1
    [] e = "start" -> 2
    [] e = "dispatch" -> 3
    [] e = "eos" -> 4
    [] e = "finish" -> 5
    [] e = "close" -> 6
    [] e = "return" -> 7
    [] OTHER -> 0

CountOf(ev, e) == Cardinality({j \in 1 .. Len(ev) : ev[j].e = e})

NodesOf(ev, e) == {ev[j].t : j \in {i \in 1 .. Len(ev) : ev[i].e = e}}

\* C7: in a successful process_bundle the steps come phase by phase: the
\* instruction is marked current, then every node is started, then records
\* are dispatched, then the end of all inputs is seen, then every node is
\* finished, then every timer stream is closed, then it returns.
C7_PhasesInOrder ==
  \A w \in Callers :
    LET ev == events[w] IN
      (ev # <<>> /\ ev[Len(ev)].e = "return") =>
        /\ result[w] = "ok"
        /\ ev[1].e = "mark"
        /\ \A i, j \in 1 .. Len(ev) : i < j => Phase(ev[i].e) <= Phase(ev[j].e)
        /\ \A j \in 1 .. Len(ev) : Phase(ev[j].e) >= 1
        /\ CountOf(ev, "mark") = 1 /\ CountOf(ev, "eos") = 1
        /\ CountOf(ev, "start") = Len(ops)
        /\ NodesOf(ev, "start") = descriptor.transforms
        /\ CountOf(ev, "finish") = Len(ops)
        /\ NodesOf(ev, "finish") = descriptor.transforms
        /\ CountOf(ev, "close") = Cardinality(descriptor.timers)
        /\ NodesOf(ev, "close") = descriptor.timers
        /\ \A t \in descriptor.timers : timer_stream[t] = "closed"

\* A bundle with data and a timer record, on a stage with a timer family,
\* returned.
C7_Witness ==
  /\ result["w1"] = "ok"
  /\ descriptor.timers # {}
  /\ timers_in["w1"] >= 1
  /\ TotalDelivered("w1") >= 1
  /\ CountOf(events["w1"], "dispatch") = 1
  /\ CountOf(events["w1"], "close") = 1
  /\ events["w1"][Len(events["w1"])].e = "return"

\* C8: a bundle that returns has passed downstream, for each input, exactly
\* the ordinals 0 .. min(N, final stop) - 1 of the N delivered, once each and
\* in increasing order; with no split all N, and a stage without splittable
\* operators returns no residual.
C8_EmitsExactlyBelowStop ==
  \A w \in Callers :
    (pc[w] = "done" /\ result[w] = "ok") =>
      /\ \A t \in InputOps(descriptor) :
           emitted[w][t] =
             Ordinals(IF stop[t] = Inf THEN delivered[w][t]
                      ELSE Min2(delivered[w][t], stop[t]))
      /\ descriptor.sdf = {} => delayed[w] = <<>>

\* A source-to-sink bundle without a split emitted everything it was sent.
C8_Witness ==
  /\ pc["w1"] = "done" /\ result["w1"] = "ok"
  /\ descriptor = Descriptor({1, 2}, {<<1, 2>>}, {}, {}, {}, FALSE)
  /\ nSplits = 0
  /\ stop[1] = Inf
  /\ delivered["w1"][1] = MaxElems
  /\ emitted["w1"][1] = Ordinals(MaxElems)
  /\ delayed["w1"] = <<>>

\* try_split of the input, asked for 3/10 of the remainder of 10, runs just
\* after exactly three elements were passed downstream.
SplitAfterThree ==
  /\ spc = "ops" /\ spos' = spos + 1 /\ ops[spos] = 1
  /\ started[1]
  /\ emitted["w1"][1] = Ordinals(3)

\* No element is in progress: the third is done (index 2, progress 1) or the
\* fourth not begun (index 3, progress 0).
NothingInProgress ==
  \/ index[1] = 2 /\ sarg' = Rat(1, 1)
  \/ index[1] = 3 /\ sarg' = Rat(0, 1)

\* C9 as the spec states it: the split after three of ten elements, for
\* 0.3 of the remainder of 7, sets stop to 3 + ceil(0.3 * 7) = 6.
C9_StopIsSix ==
  [][(SplitAfterThree /\ NothingInProgress) => stop'[1] = 6]_vars

\* C9 as the code has it: the boundary is rounded to the nearest, not up:
\* with nothing in progress the split sets stop to 3 + round(0.3 * 7) = 5,
\* ordinals from 5 on are residual and those below 5 primary.
C9_StopIsFive ==
  [][ (SplitAfterThree /\ NothingInProgress) =>
        /\ stop'[1] = 5
        /\ sresp'.channel_splits =
             <<[transform_id |-> 1, last_primary_element |-> 4,
                first_residual_element |-> 5]>>
        /\ sresp'.primary_roots = <<>> /\ sresp'.residual_roots = <<>> ]_vars

\* The split has just been made, the third element done and the fourth not
\* begun.
C9_Witness ==
  /\ spc = "ops" /\ spos = 2
  /\ sarg = Rat(1, 1)
  /\ index[1] = 2
  /\ delivered["w1"][1] = 10
  /\ emitted["w1"][1] = Ordinals(3)
  /\ stop[1] = 5
  /\ Len(sresp.channel_splits) = 1

\* C10: every pure boundary split (last_primary, [], [], first_residual) that
\* _compute_split returns has index < first_residual < stop and
\* last_primary = first_residual - 1, and when the boundary it chose is
\* <= index or >= stop it returns None.
C10_SplitWithinBounds ==
  csDone =>
    LET chosen == boundary_stop_index(csIn.index, csIn.progress, csIn.stop,
                                      csIn.fraction, csIn.total, csIn.allowed)
        in_element ==
          /\ csIn.element_splits
          /\ tries_element_split(csIn.index, csIn.progress, csIn.stop,
                                 csIn.fraction, csIn.total, csIn.allowed)
    IN  /\ (csOut # None /\ csOut[2] = <<>> /\ csOut[3] = <<>>) =>
             /\ csIn.index < csOut[4]
             /\ csIn.stop # Inf => csOut[4] < csIn.stop
             /\ csOut[1] = csOut[4] - 1
        /\ ( /\ ~in_element
             /\ \/ chosen <= csIn.index
                \/ csIn.stop # Inf /\ chosen >= csIn.stop )
           => csOut = None

\* The boundary chosen fell on the stop itself, and no split was returned.
C10_Witness ==
  /\ csDone
  /\ csIn.stop # Inf /\ csIn.index >= 0 /\ csIn.index < csIn.stop
  /\ boundary_stop_index(csIn.index, csIn.progress, csIn.stop, csIn.fraction,
                         csIn.total, csIn.allowed) = csIn.stop
  /\ csOut = None

\* C11: with allowed split points given, the first residual of every split
\* _compute_split returns, at a boundary or inside an element, is one of them.
C11_SplitOnlyAtAllowedPoints ==
  (csDone /\ csIn.allowed # {} /\ csOut # None) => csOut[4] \in csIn.allowed

\* A boundary that was not allowed was moved to an allowed point between
\* index and stop.
C11_Witness ==
  /\ csDone
  /\ Cardinality(csIn.allowed) = 2
  /\ raw_stop_index(csIn.index, csIn.progress, csIn.stop, csIn.fraction,
                    csIn.total) \notin csIn.allowed
  /\ csOut # None
  /\ csOut[2] = <<>>
  /\ csOut[4] \in csIn.allowed

\* The integer nearest to n / d (d > 0), the even one of two equally near.
Nearest(n, d) ==
  CHOOSE r \in (n \div d) .. (n \div d) + 1 :
    LET dist == IF n >= r * d THEN n - r * d ELSE r * d - n
    IN  2 * dist <= d /\ (2 * dist = d => r % 2 = 0)

\* x clamped into [lo, hi] (hi may be unbounded).
Clamped(x, lo, hi) ==
  LET below == IF hi # Inf /\ x > hi THEN hi ELSE x
  IN  IF below < lo THEN lo ELSE below

\* index + max(1, round(progress + fraction * (clamped_total - index - progress))).
C12_Boundary(in) ==
  LET total == Clamped(in.total, in.index + 1, in.stop)
      p == in.progress
      f == in.fraction
      \* progress + fraction * (total - index - progress), over p.d * f.d
      num == p.n * f.d + f.n * ((total - in.index) * p.d - p.n)
      r == Nearest(num, p.d * f.d)
  IN  in.index + (IF r >= 1 THEN r ELSE 1)

\* C12: with no split inside the element and every boundary allowed, the
\* boundary of _compute_split is index + max(1, round(progress + fraction *
\* (clamped_total - index - progress))), returned as (b - 1, [], [], b) when
\* index < b < stop; half of ten unread elements gives (4, [], [], 5), and
\* with the boundaries 2 and 7 allowed the first residual is 7.
C12_BoundaryFormula ==
  csDone =>
    /\ ( /\ csIn.allowed = {}
         /\ ~( /\ csIn.element_splits
               /\ tries_element_split(csIn.index, csIn.progress, csIn.stop,
                                      csIn.fraction, csIn.total, csIn.allowed) ) )
       => LET b == C12_Boundary(csIn)
          IN  csOut = IF csIn.index < b /\ (csIn.stop = Inf \/ b < csIn.stop)
                      THEN <<b - 1, <<>>, <<>>, b>> ELSE None
    /\ csIn \in SplitExamples =>
         csOut = IF csIn.allowed = {} THEN <<4, <<>>, <<>>, 5>>
                 ELSE <<6, <<>>, <<>>, 7>>

\* The total given lay beyond the stop and was clamped to it, and a boundary
\* split came back.
C12_Witness ==
  /\ csDone
  /\ csIn.allowed = {} /\ ~csIn.element_splits
  /\ csIn.stop # Inf /\ csIn.total > csIn.stop /\ csIn.index + 1 < csIn.stop
  /\ csIn.fraction = Rat(1, 2) /\ csIn.progress = Rat(1, 2)
  /\ csOut # None
  /\ csOut[4] = C12_Boundary(csIn)

\* Processing of input t has started for the bundle in hand: the bundle's
\* start() of t has been called and its finish() has not.
ProcessingStarted(w, t) ==
  /\ Ev("start", t) \in Range(events[w])
  /\ Ev("finish", t) \notin Range(events[w])

\* The turn of BundleProcessor.try_split that calls try_split of input t.
SplitsInput(t) ==
  /\ spc = "ops" /\ spos' = spos + 1 /\ ops[spos] = t
  /\ is_data_input(descriptor, t)

\* C13: whenever processing has not started for the current bundle (before
\* start(), after finish(), and after a failed bundle, reset() and the marking
\* of a new instruction, before start()), try_split of the input returns
\* 'no split' and leaves stop as it is.
C13_NoSplitBeforeStart ==
  [][ \A t \in TransformIds :
        (SplitsInput(t) /\ ~ProcessingStarted("w1", t))
        => stop' = stop /\ sresp' = sresp ]_vars


\* C18: after any sequence of RangeSet.add calls the two lists have the same
\* length (len() never fails its assertion), both are sorted, every stored
\* range has start < end, and consecutive stored ranges neither overlap nor
\* touch: the end of one is below the start of the next.
C18_RangesDisjointNonAdjacent ==
  LET starts == obj._sorted_starts
      ends == obj._sorted_ends
  IN  /\ Len(starts) = Len(ends)
      /\ call.op = "__len__" => call.raised = "" /\ call.ret = Len(starts)
      /\ \A i \in 1 .. Len(starts) : starts[i] < ends[i]
      /\ \A i \in 1 .. Len(starts) - 1 :
           /\ starts[i] < starts[i + 1]
           /\ ends[i] < ends[i + 1]
           /\ ends[i] < starts[i + 1]

\* A third add, of [1, 3), has bridged two stored ranges it touches into one.
C18_Witness ==
  /\ call.op = "add" /\ call.args = <<1, 3>>
  /\ hist.n = 3
  /\ RangeSet_iter(obj) = << <<0, 4>> >>

\* C19: a membership test on a RangeSet answers true exactly for the points
\* p with start <= p < end for some range added so far with start < end;
\* adds with start >= end change nothing.
C19_MembershipExact ==
  /\ call.op = "__contains__" => call.ret = (call.args[1] \in hist.covered)
  /\ (call.op = "add" /\ call.args[1] >= call.args[2]) =>
       \A key \in 0 .. MaxRangePoint : RangeSet_contains(obj, key) = (key \in hist.covered)

\* After three adds that left a gap at 2 and the ranges [0, 2) and [3, 5),
\* the end point 2 of the first range is reported as not covered.
C19_Witness ==
  /\ call.op = "__contains__" /\ call.args = <<2>> /\ call.ret = FALSE
  /\ hist.n = 3
  /\ RangeSet_iter(obj) = << <<0, 2>>, <<3, 5>> >>


\* How often e occurs in the sequence q.
Occurrences(q, e) == Cardinality({i \in 1 .. Len(q) : q[i] = e})

\* Whether sub is q with some entries left out.
RECURSIVE IsSubsequence(_, _)
IsSubsequence(sub, q) ==
  IF sub = <<>> THEN TRUE
  ELSE IF q = <<>> THEN FALSE
  ELSE IF sub[1] = q[1] THEN IsSubsequence(Tail(sub), Tail(q))
  ELSE IsSubsequence(sub, Tail(q))

InRange(key, args) == args[1] <= key /\ key < args[2]

ReadReturned == call.op \in {"read", "read_range"}

\* C20: add accepts exactly the keys from the least key of the signed key
\* width up to, and not including, the greatest one: for such a key the
\* value becomes the last pending add of the key and nothing is raised; for
\* any other key (the greatest one included) add raises and the pending
\* adds, the pending removes and the cleared flag stay as they were.
C20_AddAcceptsExactlyKeyRange ==
  [][ (call'.op = "add" /\ hist'.n = hist.n + 1) =>
        LET key == call'.args[1]
            value == call'.args[2]
        IN  IF -(2 ^ (KeyBits - 1)) <= key /\ key < (2 ^ (KeyBits - 1)) - 1
            THEN /\ call'.raised = ""
                 /\ key \in DOMAIN obj'._pending_adds
                 /\ obj'._pending_adds[key] =
                      (IF key \in DOMAIN obj._pending_adds
                       THEN obj._pending_adds[key] ELSE <<>>) \o <<value>>
                 /\ \A k \in DOMAIN obj'._pending_adds \ {key} :
                      k \in DOMAIN obj._pending_adds
                      /\ obj'._pending_adds[k] = obj._pending_adds[k]
                 /\ obj'._pending_removes = obj._pending_removes
                 /\ obj'._cleared = obj._cleared
            ELSE call'.raised = "ValueError" /\ obj' = obj ]_vars

\* An add of the greatest key has been refused after an add of the key just
\* below it was accepted.
C20_Witness ==
  /\ call.op = "add" /\ call.args[1] = (2 ^ (KeyBits - 1)) - 1
  /\ call.raised = "ValueError"
  /\ hist.added = << <<(2 ^ (KeyBits - 1)) - 2, 1>> >>

\* C16: a read() or read_range(min, limit) before commit returns, without
\* raising, every pending add with min <= key < limit and every remote
\* entry of that range that no pending remove covers, each as often as it
\* is there and nothing else, in non-decreasing key order, the pending adds
\* of one key in the order they were added.
C16_ReadMergesPendingAndRemote ==
  ReadReturned =>
    LET adds == obj._pending_adds
        pending(e) == IF e[1] \in DOMAIN adds /\ InRange(e[1], call.args)
                      THEN Occurrences(adds[e[1]], e[2]) ELSE 0
        stored(e) == IF InRange(e[1], call.args)
                        /\ ~RangeSet_contains(obj._pending_removes, e[1])
                     THEN Occurrences(handler.remote, e) ELSE 0
    IN  /\ call.raised = ""
        /\ \A e \in (RANGE_MIN .. RANGE_MAX) \X Values :
             Occurrences(call.ret, e) = pending(e) + stored(e)
        /\ \A i \in 1 .. Len(call.ret) - 1 : call.ret[i][1] <= call.ret[i + 1][1]
        /\ \A k \in DOMAIN adds :
             InRange(k, call.args) =>
               IsSubsequence([i \in 1 .. Len(adds[k]) |-> <<k, adds[k][i]>>],
                             call.ret)

\* C17: once a clear_range or clear has been called, a read before commit
\* returns, without raising, exactly the entries of its range that were
\* added and not cleared since and the remote entries of its range whose
\* key no clear_range has covered; clear() counts as a clear_range over the
\* whole key range.
C17_ClearedRangesStayOut ==
  (ReadReturned /\ hist.cleared # {}) =>
    /\ call.raised = ""
    /\ \A e \in (RANGE_MIN .. RANGE_MAX) \X Values :
         Occurrences(call.ret, e) =
           (IF InRange(e[1], call.args) THEN Occurrences(hist.added, e) ELSE 0)
           + (IF InRange(e[1], call.args) /\ e[1] \notin hist.cleared
              THEN Occurrences(handler.remote, e) ELSE 0)


\* C14: when commit() of a bag, a set or an ordered list returns, commit
\* has waited on every pending operation it issued and each of them has
\* completed: with a clear and an append issued, both.
C14_CommitAwaitsEveryOperation ==
  (call.op = "commit" /\ hist.kind \in {"bag", "set", "ordered_list"}) =>
    \A i \in Range(call.args) :
      i \in hist.awaited /\ handler.requests[i].done

\* C15: whatever paths the adds took, read() of a combining value returns
\* extract_output of the merge of the accumulators stored at first (none of
\* them once clear was called) with the values added since the last clear.
C15_ReadReflectsEveryAdd ==
  (hist.kind = "combining" /\ call.op = "read") =>
    call.ret =
      extract_output(
        merge_accumulators(
          (IF hist.cleared THEN <<>> ELSE hist.stored)
          \o [i \in 1 .. Len(hist.added) |->
                add_input(create_accumulator, hist.added[i])]))

\* A read after three adds that took both paths, over two stored
\* accumulators and no clear.
C15_Witness ==
  /\ hist.kind = "combining" /\ call.op = "read"
  /\ Len(hist.stored) = 2 /\ ~hist.cleared
  /\ hist.added = <<2, 2, 1>> /\ hist.paths = {TRUE, FALSE}
  /\ call.ret = [sum |-> 8, count |-> 5]

\* C21: between two resets a side input map makes at most one view for each
\* target window: main-input windows that map to the same target window are
\* given the same view, a lookup whose target window is cached returns the
\* cached view and calls view_fn no more, and after reset() the cache is
\* empty and the next lookup of a window makes a view that did not exist.
C21_OneViewPerTargetWindow ==
  /\ [](
         /\ \A target_window \in DOMAIN hist.view_fn :
             /\ hist.view_fn[target_window] <= 1
             /\ (target_window \in DOMAIN obj._cache)
                  <=> (hist.view_fn[target_window] = 1)
         /\ \A w1, w2 \in DOMAIN hist.served :
              (window_mapping_fn(w1) = window_mapping_fn(w2))
                => (hist.served[w1] = hist.served[w2])
         /\ (call.op = "reset")
              => (obj._cache = <<>> /\ hist.served = <<>>))
  /\ [][ (call'.op = "__getitem__" /\ call'.raised = "" /\ hist' # hist)
          => LET target_window == window_mapping_fn(call'.args) IN
               IF target_window \in DOMAIN obj._cache
               THEN /\ call'.ret = obj._cache[target_window]
                    /\ hist'.views = hist.views
                    /\ obj' = obj
               ELSE /\ call'.ret = hist.views + 1
                    /\ hist'.views = hist.views + 1
                    /\ obj'._cache[target_window] = call'.ret ]_vars

\* After a reset, the main-input windows 1 and 2 were both given the second
\* view, made by the one call of view_fn since the reset.
C21_Witness ==
  /\ hist.nresets = 1
  /\ hist.views = 2
  /\ DOMAIN hist.served = {1, 2}
  /\ hist.served[1] = 2 /\ hist.served[2] = 2
  /\ hist.view_fn[1] = 1

\* C22: once BundleProcessor.reset has run (the caller is idle again), every
\* input adapter has index -1 and an unbounded stop, and the operator holds
\* no state object and no side input view: whatever split bound, read index
\* or cached object the bundle left is gone before the next bundle starts,
\* and the step that resets the adapters is what restores them.
C22_ResetRestoresProcessor ==
  /\ []((\A w \in Callers : pc[w] = "idle")
          => /\ \A t \in InputOps(descriptor) :
                  index[t] = -1 /\ stop[t] = Inf
             /\ obj._all_states = <<>>
             /\ obj._cache = <<>>)
  /\ [][ \A w \in Callers :
          (pc[w] = "done" /\ pc'[w] = "idle")
            => \A t \in InputOps(descriptor) :
                 index'[t] = -1 /\ stop'[t] = Inf ]_vars

\* A bundle ended with a split bound on the input adapter, its index past
\* the start, a state object and a side input view in the caches; reset has
\* run and the processor is idle.
C22_Witness ==
  /\ pc["w1"] = "idle"
  /\ call.op = "reset"
  /\ call.args[1] >= 0 /\ call.args[2] < Inf
  /\ Len(obj.states) >= 1 /\ hist.views >= 1
  /\ hist.nresets = bundles
  /\ index[1] = -1 /\ stop[1] = Inf

\* The state objects the context has cached.
Cached == {obj._all_states[args] : args \in DOMAIN obj._all_states}

\* C29: between resets the context holds one state object for each tuple
\* (spec, key, window) and no object under two tuples; get_state with
\* arguments it has cached returns the cached object and creates nothing,
\* and otherwise a new object; commit() commits every cached object once
\* and no other; reset() finalizes every cached object and leaves the cache
\* empty.
C29_OneObjectPerStateCell ==
  /\ [](
         /\ \A a1, a2 \in DOMAIN obj._all_states :
              (obj._all_states[a1] = obj._all_states[a2]) => (a1 = a2)
         /\ (call.op = "get_state" /\ call.raised = "")
              => (/\ call.args \in DOMAIN obj._all_states
                  /\ call.ret = obj._all_states[call.args]
                  /\ obj.states[call.ret].spec = call.args[1])
         /\ (call.op = "reset") => (obj._all_states = <<>>))
  /\ [][ /\ (call'.op = "get_state" /\ call'.raised = "" /\ call' # call)
            => IF call'.args \in DOMAIN obj._all_states
               THEN /\ call'.ret = obj._all_states[call'.args]
                    /\ obj' = obj
               ELSE /\ call'.ret \notin DOMAIN obj.states
                    /\ obj'._all_states =
                         obj._all_states @@ (call'.args :> call'.ret)
         /\ (hist'.ncommits # hist.ncommits)
            => \A id \in DOMAIN obj.states :
                 hist'.commits[id] =
                   hist.commits[id] + (IF id \in Cached THEN 1 ELSE 0)
         /\ (hist'.nresets # hist.nresets)
            => \A id \in Cached :
                 obj.states[id].spec = "combining"
                   => obj'.states[id]._finalized ]_vars

\* After a commit and a reset that dropped the first object, get_state has
\* made a second object and, a finalize call later, returned it again.
C29_Witness ==
  /\ hist.nresets = 1
  /\ Len(obj.states) = 2
  /\ call.op = "get_state" /\ call.raised = "" /\ call.ret = 2
  /\ obj.states[2].spec = "combining" /\ obj.states[2]._finalized
  /\ obj.states[1].spec = "combining" /\ obj.states[1]._finalized
  /\ hist.commits[1] = 1
  /\ Cached = {2}

\* C30: the combine fn of a combining value is set up once, when the object
\* is created, and torn down at most once, by the first finalize; an object
\* the context no longer holds (a reset has run since it was created) has
\* been torn down exactly once, whatever finalize calls came before or
\* after.
C30_TornDownExactlyOnce ==
  \A id \in DOMAIN obj.states :
    obj.states[id].spec = "combining"
      => /\ obj.states[id].setup = 1
         /\ obj.states[id].teardown <= 1
         /\ obj.states[id]._finalized <=> (obj.states[id].teardown = 1)
         /\ (id \notin Cached) => (obj.states[id].teardown = 1)

\* The first object was dropped by a reset and a holder has called finalize
\* on it once more; the second, made after the reset, is not torn down.
C30_Witness ==
  /\ hist.nresets = 1
  /\ call.op = "finalize" /\ call.args = 1
  /\ Len(obj.states) = 2
  /\ obj.states[1].spec = "combining" /\ obj.states[1].teardown = 1
  /\ obj.states[2].spec = "combining" /\ obj.states[2].teardown = 0
  /\ Cached = {2}

\* The boundary csIn's call computes before it looks at the allowed points.
RawBoundary ==
  raw_stop_index(csIn.index, csIn.progress, csIn.stop, csIn.fraction,
                 csIn.total)

\* The call split at a boundary of elements, not inside the element.
AtBoundary ==
  ~( /\ csIn.element_splits
     /\ tries_element_split(csIn.index, csIn.progress, csIn.stop,
                            csIn.fraction, csIn.total, csIn.allowed) )

\* The allowed point for a raw boundary that is not allowed, taken from the
\* allowed points below and above it.
C23_Snapped ==
  LET raw == RawBoundary
      below == {a \in csIn.allowed : a < raw}
      above == {a \in csIn.allowed : a > raw}
  IN  IF below = {} THEN CHOOSE a \in above : \A b \in above : a <= b
      ELSE IF above = {} THEN CHOOSE a \in below : \A b \in below : a >= b
      ELSE LET prev == CHOOSE a \in below : \A b \in below : a >= b
               next == CHOOSE a \in above : \A b \in above : a <= b
           IN  IF csIn.index < prev /\ raw - prev < next - raw
               THEN prev ELSE next

\* C23: when allowed split points are given and the raw boundary is not one
\* of them, _compute_split moves it to the smallest allowed point if it lies
\* below all of them, to the largest if it lies above all, and otherwise to
\* the allowed point before it only if that point is past index and
\* strictly nearer than the allowed point after it, else to the point after
\* (also on a tie); the split returned, if any, is at that point, and with
\* {2, 7} allowed a raw boundary of 5 moves to 7.
C23_SnapsToAllowedPoint ==
  (csDone /\ AtBoundary /\ csIn.allowed # {}
     /\ RawBoundary \notin csIn.allowed)
    => /\ csOut = IF /\ csIn.index < C23_Snapped
                     /\ (csIn.stop = Inf \/ C23_Snapped < csIn.stop)
                  THEN <<C23_Snapped - 1, <<>>, <<>>, C23_Snapped>>
                  ELSE None
       /\ (csIn.allowed = {2, 7} /\ RawBoundary = 5) => C23_Snapped = 7

\* The raw boundary lay midway between two allowed points, both past index,
\* and the split came back at the later one.
C23_Witness ==
  /\ csDone /\ AtBoundary
  /\ \E prev, next \in csIn.allowed :
       /\ prev < RawBoundary /\ RawBoundary < next
       /\ RawBoundary - prev = next - RawBoundary
       /\ csIn.index < prev
       /\ csOut # None
       /\ csOut[4] = next

\* progress < 1, keep / (1 - progress) < 1 with keep the fraction of what
\* remains of the clamped total, and index and index + 1 both valid points.
\* The total is raised to index + 1 when it is below, and otherwise lowered
\* to stop when it is above (where stop <= index, [index + 1, stop] is empty
\* and this is the order that says what clamping into it means).
C24_Attempts ==
  LET total == IF csIn.total < csIn.index + 1 THEN csIn.index + 1
               ELSE IF csIn.stop # Inf /\ csIn.total > csIn.stop THEN csIn.stop
               ELSE csIn.total
      p == csIn.progress
      f == csIn.fraction
  IN  /\ p.n < p.d
      /\ ((total - csIn.index) * p.d - p.n) * f.n < f.d * (p.d - p.n)
      /\ \A i \in {csIn.index, csIn.index + 1} :
           csIn.allowed = {} \/ i \in csIn.allowed

\* C24: _compute_split splits inside the element exactly when progress < 1,
\* keep / (1 - progress) < 1, index and index + 1 are both valid split points
\* and the element split function yields a pair; the result is then
\* (index - 1, primaries, residuals, index + 1): the first residual of the
\* channel split is its last primary + 2, the roots are the pair's, and
\* try_split sets stop to index + 1.  In every other case the result is
\* that of the boundary computation: nothing, or empty roots and a first
\* residual of last primary + 1.
C24_ElementSplit ==
  csDone =>
    IF C24_Attempts /\ csIn.element_splits
    THEN /\ csOut = <<csIn.index - 1, <<"primary">>, <<"residual">>,
                      csIn.index + 1>>
         /\ stop_after_split(csIn.stop, csOut) = csIn.index + 1
         /\ LET resp == add_split(EmptyResponse, 1, csOut)
            IN  /\ resp.channel_splits[1].first_residual_element =
                     resp.channel_splits[1].last_primary_element + 2
                /\ resp.primary_roots = csOut[2]
                /\ resp.residual_roots = csOut[3]
    ELSE /\ csOut = boundary_result(
                      csIn.index, csIn.stop,
                      boundary_stop_index(csIn.index, csIn.progress, csIn.stop,
                                          csIn.fraction, csIn.total,
                                          csIn.allowed))
         /\ csOut # None
              => LET resp == add_split(EmptyResponse, 1, csOut)
                 IN  /\ resp.channel_splits[1].first_residual_element =
                          resp.channel_splits[1].last_primary_element + 1
                     /\ resp.primary_roots = <<>>
                     /\ resp.residual_roots = <<>>

\* With allowed split points given, the element in progress was split, and
\* the stop that try_split sets is below the stop it had.
C24_Witness ==
  /\ csDone
  /\ csIn.element_splits /\ C24_Attempts
  /\ csIn.allowed # {} /\ csIn.index >= 0
  /\ csIn.stop # Inf /\ csIn.index + 1 < csIn.stop
  /\ csOut = <<csIn.index - 1, <<"primary">>, <<"residual">>, csIn.index + 1>>

\* C26: read() of a bag returns what the service holds, left out if clear
\* was called at any time since the object was made, followed by exactly the
\* values added since the last clear, in the order they were added; clear
\* sets the cleared flag and empties the buffer.
C26_BagReadsRemoteThenAdds ==
  hist.kind = "bag"
    => /\ (call.op = "read")
            => (call.ret = (IF hist.cleared THEN <<>> ELSE handler.remote)
                             \o hist.added)
       /\ (call.op = "clear")
            => (obj._cleared /\ obj._added_elements = <<>>)

\* The service held a value; a clear and two adds later, the read gave the
\* two values added and not the stored one.
C26_Witness ==
  /\ hist.kind = "bag"
  /\ hist.stored = <<1>> /\ hist.cleared /\ hist.n = 3
  /\ call.op = "read"
  /\ call.ret = <<2, 1>>

\* C27: read() of a set returns exactly the elements the service held before
\* the bundle, unless a clear has occurred, together with every element
\* added since the last clear, each once, whichever adds compacted; an add
\* that follows a clear issues the clear to the service at once (and drops
\* the flag), so that no later read brings a cleared element back.
C27_SetReadIsUnion ==
  /\ [](hist.kind = "set" /\ call.op = "read"
          => call.ret = (IF hist.cleared THEN {} ELSE Range(hist.stored))
                          \cup Range(hist.added))
  /\ [][ (hist.kind = "set" /\ call'.op = "add" /\ hist'.n # hist.n
            /\ obj._cleared)
          => /\ Len(handler'.requests) > Len(handler.requests)
             /\ handler'.requests[Len(handler.requests) + 1].op = "clear"
             /\ ~obj'._cleared ]_vars

\* The service held 1; after a clear, an add of 2 that compacted and an add
\* that did not, the read gave the two added elements only.
C27_Witness ==
  /\ hist.kind = "set"
  /\ hist.stored = <<1>> /\ hist.cleared
  /\ hist.added = <<2, 1>> /\ hist.paths = {TRUE, FALSE}
  /\ call.op = "read"
  /\ call.ret = {1, 2}

\* C28: read() of a read-modify-write state returns the value written last
\* since the last clear(), nothing after a clear() with no write since, and
\* otherwise the first element the service holds, or nothing when it holds
\* none; after writes followed by a commit the service holds exactly the
\* value written last.
C28_ReadModifyWrite ==
  hist.kind = "rmw"
    => /\ (call.op = "read")
            => (call.ret =
                  IF hist.added # <<>> THEN <<hist.added[Len(hist.added)]>>
                  ELSE IF hist.cleared \/ hist.stored = <<>> THEN None
                  ELSE <<hist.stored[1]>>)
       /\ (call.op = "commit" /\ hist.added # <<>>)
            => (handler.remote = <<hist.added[Len(hist.added)]>>)

\* The service held two values; 1 was written, then 2, and commit has
\* returned with 2 alone at the service.
C28_Witness ==
  /\ hist.kind = "rmw"
  /\ hist.stored = <<2, 1>> /\ hist.added = <<1, 2>>
  /\ call.op = "commit"
  /\ handler.remote = <<2>>

\* The requests the step has issued, in order.
Issued == SubSeq(handler'.requests, Len(handler.requests) + 1,
                 Len(handler'.requests))

\* C25: commit of an ordered list issues one clear for each interval of the
\* pending removes and no other, then, if adds are pending, one append of
\* all of them, ascending by key and in the order added under each key;
\* no clear comes after the append; commit waits on every request it has
\* issued, and when it returns the pending adds and removes are empty and
\* the cleared flag is false.
C25_OrderedListCommit ==
  /\ [][ (hist.kind = "ordered_list" /\ call'.op = "commit:await"
            /\ call.op # "commit:await")
          => LET removes == RangeSet_iter(obj._pending_removes)
                 clears == {i \in 1 .. Len(Issued) :
                              Issued[i].op = "clear_range"}
                 appends == {i \in 1 .. Len(Issued) :
                               Issued[i].op = "extend_ordered"}
             IN  /\ clears \cup appends = 1 .. Len(Issued)
                 /\ Cardinality(clears) = Len(removes)
                 /\ \A j \in 1 .. Len(removes) :
                      \E i \in clears : Issued[i].arg = removes[j]
                 /\ Cardinality(appends) =
                      (IF DOMAIN obj._pending_adds = {} THEN 0 ELSE 1)
                 /\ \A i \in appends :
                      /\ \A c \in clears : c < i
                      /\ \A n \in 1 .. Len(Issued[i].arg) - 1 :
                           Issued[i].arg[n][1] <= Issued[i].arg[n + 1][1]
                      /\ {kv[1] : kv \in Range(Issued[i].arg)} =
                           DOMAIN obj._pending_adds
                      /\ \A k \in DOMAIN obj._pending_adds :
                           SelectSeq(Issued[i].arg, LAMBDA kv : kv[1] = k) =
                             [n \in 1 .. Len(obj._pending_adds[k]) |->
                                <<k, obj._pending_adds[k][n]>>]
                 /\ Range(call'.ret) = Range(call'.args)
                 /\ Len(call'.args) = Len(Issued) ]_vars
  /\ []((hist.kind = "ordered_list" /\ call.op = "commit")
          => /\ \A i \in Range(call.args) :
                  i \in hist.awaited /\ handler.requests[i].done
             /\ obj._pending_adds = <<>>
             /\ RangeSet_iter(obj._pending_removes) = <<>>
             /\ ~obj._cleared)

\* Commit has returned after two clears, of the two ranges cleared, and
\* one append, each waited on.
C25_Witness ==
  /\ hist.kind = "ordered_list"
  /\ call.op = "commit"
  /\ Len(call.args) = 3
  /\ handler.requests[call.args[1]].op = "clear_range"
  /\ handler.requests[call.args[2]].op = "clear_range"
  /\ handler.requests[call.args[3]].op = "extend_ordered"
  /\ hist.awaited = Range(call.args)


\* The entries of the cache that the bulk read has put there.
BulkCached == {k \in DOMAIN obj.cache : obj.cache[k][1] = "vs"}

\* C31: the bulk read caches at most _BULK_READ_LIMIT pairs; it marks the
\* view fully read exactly when the keys-values iteration ends, with no
\* error, within that many pairs; and a fully read view answers every lookup
\* from the cache, a missing key with the empty sequence, with no further
\* turn of the iteration and no point lookup.
C31_BulkReadLimit ==
  /\ [](Cardinality(BulkCached) <= _BULK_READ_LIMIT)
  /\ [](obj._bulk_read # "None" =>
          (obj._bulk_read = "fully" <=>
             (/\ handler.n <= _BULK_READ_LIMIT
              /\ (handler.raises_at = <<>> \/ handler.raises_at[1] >= handler.n))))
  /\ [][obj._bulk_read = "fully" =>
          /\ hist'.requests = hist.requests
          /\ hist'.points = hist.points
          /\ obj'.cache = obj.cache
          /\ (call' # call =>
                call'.ret = IF call'.args[2] \in DOMAIN obj.cache
                            THEN obj.cache[call'.args[2]] ELSE <<>>)]_vars

\* C32: once _bulk_read is "partially" it stays so and no bulk read begins
\* again; the pairs the bulk read cached stay as they are; a lookup of a key
\* the cache lacks makes one point lookup, stores it under the key and
\* returns what the cache holds for the key, and a key the cache holds makes
\* none; no lookup raises.
C32_FallsBackToPointLookups ==
  /\ [](hist.bulk <= 1 /\ call.raised = "")
  /\ [](\A t \in Callers : obj.pc[t] = "loop" => obj._bulk_read = "None")
  /\ [][obj._bulk_read = "partially" =>
          /\ obj'._bulk_read = "partially"
          /\ hist'.bulk = hist.bulk
          /\ \A k \in BulkCached :
               k \in DOMAIN obj'.cache /\ obj'.cache[k] = obj.cache[k]
          /\ \A t \in Callers :
               /\ (obj.pc[t] = "bulk_read" /\ obj'.pc[t] = "point")
                    => obj.key[t] \notin DOMAIN obj.cache
               /\ (obj.pc[t] = "bulk_read" /\ obj'.pc[t] = "return")
                    => (obj.key[t] \in DOMAIN obj.cache
                        /\ hist'.points = hist.points)
               /\ (obj.pc[t] = "point" /\ obj'.pc[t] = "return")
                    => (/\ hist'.points = hist.points + 1
                        /\ obj'.cache[obj.key[t]] = <<"point", hist'.points>>)
               /\ (obj.pc[t] = "return" /\ obj'.pc[t] = "idle")
                    => (/\ call'.args = <<t, obj.key[t]>>
                        /\ call'.ret = obj.cache[obj.key[t]]
                        /\ hist'.points = hist.points)
          /\ (hist'.points # hist.points =>
                \E t \in Callers : obj.pc[t] = "point" /\ obj'.pc[t] = "return")
       ]_vars

\* The iteration raised after one pair; the bulk read was not begun again,
\* the pair is still cached, and a lookup of a key the cache lacked has
\* returned the point lookup made for it.
C32_Witness ==
  /\ obj._bulk_read = "partially"
  /\ handler.raises_at = <<1>>
  /\ hist.bulk = 1 /\ hist.lookups = 3
  /\ BulkCached = {1}
  /\ call.op = "MultiMap.__getitem__"
  /\ call.args[2] = _BULK_READ_LIMIT + 3
  /\ call.ret = <<"point", 1>>
  /\ hist.points = 1

\* C33: over all the threads of a view with bulk read enabled, the bulk read
\* is begun at most once and by one thread; while it runs every other thread
\* in __getitem__ stands at the lock; and what a thread then reads of
\* _bulk_read is "fully" or "partially", the same for all.
C33_OneBulkRead ==
  /\ hist.bulk <= 1
  /\ Cardinality(hist.by) <= 1
  /\ Cardinality({t \in Callers : obj.pc[t] = "loop"}) <= 1
  /\ \A t \in Callers :
       obj.pc[t] = "loop" =>
         /\ obj._lock = t
         /\ \A u \in Callers \ {t} : obj.pc[u] \in {"idle", "lock"}
  /\ obj.use_bulk_read =>
       \A t \in Callers :
         hist.seen[t] # "" =>
           /\ hist.seen[t] \in {"fully", "partially"}
           /\ hist.seen[t] = obj._bulk_read
           /\ hist.bulk = 1

\* Thread w2 stood at the lock while w1 made the bulk read, and both have
\* then read "partially" in their first lookups.
C33_Witness ==
  /\ obj.use_bulk_read
  /\ hist.by = {"w1"} /\ hist.waited = {"w2"}
  /\ hist.lookups = 2
  /\ hist.seen["w1"] = "partially" /\ hist.seen["w2"] = "partially"
  /\ hist.bulk = 1


\* C34: an unknown state spec and an unknown access pattern are refused when
\* the processor is constructed: once it exists no get_state raises
\* NotImplementedError and no lookup of a side input raises ValueError; and
\* a call that raises leaves _all_states and _cache as they were.
C34_UnknownKindFailsAtConstruction ==
  /\ [](call.raised \notin {"NotImplementedError", "ValueError"})
  /\ [][(call' # call /\ call'.raised # "") =>
          (obj'._all_states = obj._all_states /\ obj'._cache = obj._cache)]_vars


\* C35: list() of the result of a read_range, whatever add, clear or
\* clear_range was called between the two, yields the remote entries of the
\* range whose key no pending remove covered when read_range was called and
\* the adds of the range that were pending then, each as often as it was
\* there and nothing else; when the merge raises, what it had yielded is
\* among these.
C35_ReadRangeSnapshot ==
  [][(handler.it # None /\ handler'.it = None) =>
       LET at == handler.it.hist
           expected(e) ==
             IF InRange(e[1], handler.it.range)
             THEN Occurrences(at.added, e)
                  + (IF e[1] \notin at.cleared
                     THEN Occurrences(handler.remote, e) ELSE 0)
             ELSE 0
       IN  /\ call'.op = "list"
           /\ \A e \in (RANGE_MIN .. RANGE_MAX) \X Values :
                IF call'.raised = ""
                THEN Occurrences(call'.ret, e) = expected(e)
                ELSE Occurrences(call'.ret, e) <= expected(e)]_vars

\* A clear_range over the range read came between read_range and list(),
\* which has yielded the remote entry of the range and the two adds that
\* were pending at the call.
C35_Witness ==
  /\ call.op = "list" /\ call.raised = ""
  /\ call.ret = << <<0, 1>>, <<0, 1>>, <<0, 2>> >>
  /\ handler.remote = << <<0, 1>> >>
  /\ hist.cleared = 0 .. RANGE_MAX - 1
  /\ hist.added = <<>>
  /\ obj._pending_adds = <<>>


\* C36: while an input adapter is started, -1 <= index < stop; no step but
\* the reset of the processor raises stop, and a step that lowers it leaves
\* it above index, above every element emitted and above the one being
\* decoded; a try_split that returns a pure boundary split lowers stop
\* strictly.
C36_InputPosition ==
  /\ [](\A t \in InputOps(descriptor) :
          started[t] => (-1 <= index[t] /\ index[t] < stop[t]))
  /\ [][\A t \in InputOps(descriptor) :
          ~(pc["w1"] = "done" /\ pc'["w1"] = "idle") =>
            /\ stop'[t] <= stop[t]
            /\ (stop'[t] # stop[t]) =>
                 /\ started[t] /\ spc = "ops"
                 /\ index'[t] = index[t] /\ index[t] < stop'[t]
                 /\ \A k \in Range(emitted["w1"][t]) : k < stop'[t]
                 /\ (pc["w1"] = "pe_decode" /\ cur["w1"] = t)
                      => ord["w1"] < stop'[t]
            /\ ( /\ spc = "ops" /\ spos' = spos + 1 /\ ops[spos] = t
                 /\ Len(sresp'.channel_splits) = Len(sresp.channel_splits) + 1
                 /\ sresp'.primary_roots = sresp.primary_roots )
               => (stop'[t] < stop[t] /\ index[t] < stop'[t])]_vars

\* With an element being decoded, the pure boundary split of a second
\* try_split has set the stop to the ordinal after that element.
C36_Witness ==
  /\ spc = "ops" /\ nSplits = 2
  /\ started[1]
  /\ pc["w1"] = "pe_decode" /\ cur["w1"] = 1
  /\ index[1] = 0 /\ stop[1] = 1
  /\ Len(sresp.channel_splits) = 1
  /\ sresp.primary_roots = <<>>
  /\ sresp.channel_splits[1].first_residual_element = 1
  /\ delivered["w1"][1] = MaxElems


\* Whether the sequence q is in non-decreasing key order.
KeyOrdered(q) == \A i \in 1 .. Len(q) - 1 : q[i][1] <= q[i + 1][1]

\* Whether what the service holds, remote, is the content ret that a read of
\* an object of the kind has returned.
SameContent(kind, remote, ret) ==
  IF kind = "bag" THEN remote = ret
  ELSE IF kind = "set" THEN Range(remote) = ret
  ELSE /\ KeyOrdered(remote) /\ KeyOrdered(ret)
       /\ \A e \in Range(remote) \cup Range(ret) :
            Occurrences(remote, e) = Occurrences(ret, e)

\* C37: when the first commit() of a bag, a set or an ordered list returns
\* and the call before it was read(), that read returned without raising
\* and the service holds what it returned: the same sequence for a bag, the
\* same set for a set, the same entries in key order for an ordered list.
C37_CommitMatchesRead ==
  ( /\ hist.kind \in {"bag", "set", "ordered_list"}
    /\ call.op = "commit" /\ hist.commits = 1
    /\ hist.before.op = "read" )
  => /\ hist.before.raised = ""
     /\ SameContent(hist.kind, handler.remote, hist.before.ret)

\* C38: for a bag, a set and an ordered list, when a second commit() in a
\* row returns the service holds what it held when the first returned, and
\* a read() after commit() returns, without raising, the content that the
\* read() before the commit had returned.
C38_CommitIdempotent ==
  hist.kind \in {"bag", "set", "ordered_list"} =>
    /\ (call.op = "commit" /\ hist.commits = 2) =>
         IF hist.kind = "set"
         THEN Range(handler.remote) = Range(hist.committed[1])
         ELSE SameContent(hist.kind, handler.remote, hist.committed[1])
    /\ (call.op = "read" /\ hist.commits = 1 /\ hist.before.op = "read") =>
         /\ hist.before.raised = "" /\ call.raised = ""
         /\ IF hist.kind = "set" THEN call.ret = hist.before.ret
            ELSE SameContent(hist.kind, call.ret, hist.before.ret)

\* C39: a bag and an ordered list send the service nothing before commit():
\* until then it has no request of theirs and holds what it held at first,
\* whatever add, clear, clear_range and read were called; and after a reset
\* of the context without a commit the object of the state key is a new
\* one, with nothing buffered, whose read returns what the service held at
\* first.
C39_NoRemoteWriteBeforeCommit ==
  /\ []((hist.kind \in {"bag", "ordered_list"} /\ hist.commits = 0) =>
          /\ handler.requests = <<>>
          /\ handler.remote = hist.stored
          /\ (call.op = "reset" =>
                /\ ~obj._cleared
                /\ IF hist.kind = "bag" THEN obj._added_elements = <<>>
                   ELSE obj = OrderedList_init))
  /\ [][(hist.kind \in {"bag", "ordered_list"} /\ hist.commits = 0) =>
          /\ hist'.stored = hist.stored
          /\ (call.op = "reset" /\ call'.op = "read") =>
               (call'.raised = "" /\ call'.ret = hist.stored)]_vars

\* After an add, a clear and an add on an ordered list over a stored entry,
\* the context was reset without a commit, and the read of the new object
\* has returned the stored entry.
C39_Witness ==
  /\ hist.kind = "ordered_list"
  /\ hist.n = 3 /\ hist.resets = 1 /\ hist.commits = 0
  /\ hist.before.op = ""
  /\ call.op = "read" /\ call.ret = << <<0, 1>> >>
  /\ handler.remote = << <<0, 1>> >>
  /\ obj = OrderedList_init

\* C40: when commit() of a set returns, every request sent to the service
\* for the set since its object was made has completed, those of add (the
\* clear after a pending clear, the clear and the append of a compaction)
\* as well as those of commit.
C40_SetCommitCompletesAll ==
  (hist.kind = "set" /\ call.op = "commit") =>
    \A i \in 1 .. Len(handler.requests) : handler.requests[i].done

=============================================================================
